---- MODULE Spec2Model ----
(***************************************************************************)
(* Model of the auto splitting runtime debugger (src/src/main.rs): the     *)
(* runtime thread that ticks the active auto splitter, the load / reload / *)
(* restart lifecycle of AppState::load with its bounded try_lock and       *)
(* interrupt, the shared statistics, the timer state with its log, and the *)
(* settings map compare-and-swap loops of the user interface.              *)
(*                                                                         *)
(* Two threads exist: the user interface thread ("ctrl", everything below  *)
(* App::update) and the "Auto Splitter Thread" ("sched", runtime_thread).  *)
(* Every shared access of the source (ArcSwapOption load/store, a Mutex or *)
(* RwLock critical section, an atomic load or store) is one step.  The     *)
(* edit loop of a settings widget is modelled for two writers at once.     *)
(*                                                                         *)
(* Durations are in milliseconds.  Instants are opaque in the source, only *)
(* differences of instants are observable, so next_tick is kept relative   *)
(* to the current instant: time passing by d lowers next_tick by d.        *)
(***************************************************************************)
EXTENDS Integers, Sequences, FiniteSets, TLC

\* ------------------------------------------------------------------ bounds
MaxInst == 2        \* auto splitter instances alive at once
MaxLog == 2         \* log entries kept in the model
MaxSamples == 2     \* samples recorded in the histogram
MaxEdits == 2       \* edits of a setting by one writer
MaxSplit == 2       \* the split index the model follows
MaxTime == 1        \* the game times an auto splitter sets

\* ------------------------------------------------------- program constants
LockAttempts == 100 \* for _ in 0..100
IdleRate == 100     \* Duration::from_secs(1) / 10

Inst == 1 .. MaxInst
NoInst == 0

Paths == {"a.wasm"}

\* settings::Map: the keys of the settings, the values of a key ("unset":
\* the key is not in the map).  A snapshot is a map with the identity `id` of
\* its allocation, which set_settings_map_if_unchanged compares.
Keys == {"A", "B"}
Values == {"unset", "on", "off"}
EmptyMap == [k \in Keys |-> "unset"]
NewMap == [id |-> 0, map |-> EmptyMap]
NoMap == [id |-> 0 - 1, map |-> EmptyMap]

\* The contexts that may run an edit loop at once, each on a key of its own.
\* The widgets of the program run theirs on the user interface thread; the
\* other writer of a settings map is the auto splitter itself, which goes
\* through the same compare-and-swap of the library.
Writers == {"first", "second"}
KeyOf == [w \in Writers |-> IF w = "first" THEN "A" ELSE "B"]

VARIABLES
    \* SharedState
    auto_splitter,   \* ArcSwapOption: NoInst or the published instance
    tick_rate, slowest_tick, memory_usage, handles, avg_tick_secs,
    tick_times,      \* histogram: the recorded values
    processes,
    \* the AutoSplitter instances (library objects)
    exec_lock,       \* [Inst -> set of threads holding the ExecutionGuard]
    interrupted,     \* [Inst -> has interrupt() been called on its handle]
    stuck,           \* [Inst -> its update() does not return by itself]
    settings,        \* [Inst -> its settings map, a snapshot with an identity]
    \* DebuggerTimerState behind the RwLock
    timer_state, game_time, game_time_state, split_index, variables, logs,
    \* AppState
    path, script_path, module,
    \* the user interface thread: its position, the locals of load and of
    \* try_lock
    cpc, load, settings_map, succeeded, new_auto_splitter, guard_as, attempt,
    interrupts,      \* history: interrupt() calls of the load in progress
    log_mark,        \* history: Len(logs) when the load in progress began
    \* locals of runtime_thread
    spc, s_auto_splitter, time_of_tick, res, s_memory, s_handles, s_avg,
    s_tick_rate, next_tick,
    missed,          \* history: no sleep since next_tick was last reset to now
    since_reset,     \* history: the time that has passed since that reset
    \* the contexts that edit a setting: position, the handle `runtime`, the
    \* locals old, new and value of the loop
    wpc, wruntime, wold, wnew, wvalue,
    edits,           \* the edits a writer has begun
    failed,          \* history: the failed compare-and-swaps of its last edit
    \* the locks the two threads take, as each thread takes and gives them
    \* back: who holds each lock, what the runtime thread and the user
    \* interface thread have still to do in the iteration or the handler
    \* they are in, and the failed passes of the try_lock in progress
    owner, rt, ui, tries

statVars == <<tick_rate, slowest_tick, memory_usage, handles, avg_tick_secs,
              tick_times, processes>>
instVars == <<exec_lock, interrupted, stuck, settings>>
stateVars == <<timer_state, game_time, game_time_state, split_index, variables>>
timerVars == <<stateVars, logs>>
appVars == <<path, script_path, module>>
loadVars == <<load, settings_map, succeeded, new_auto_splitter, interrupts,
              log_mark>>
guardVars == <<guard_as, attempt>>
ctrlVars == <<cpc, appVars, loadVars, guardVars>>
tickVars == <<s_auto_splitter, time_of_tick, res, s_memory, s_handles, s_avg>>
histVars == <<missed, since_reset>>
schedVars == <<spc, tickVars, s_tick_rate, next_tick, histVars>>
casVars == <<wpc, wruntime, wold, wnew, wvalue, edits, failed>>
lockVars == <<owner, rt, ui, tries>>
vars == <<auto_splitter, statVars, instVars, timerVars, ctrlVars, schedVars,
          casVars, lockVars>>

\* ---------------------------------------------------------------- helpers
\* Histogram<u64>: the recorded values (in recording order, which is unused)
EmptyHistogram == << >>
HistogramLen(h) == Len(h)
\* tick_times += v
HistogramRecord(h, v) == Append(h, v)

\* An average that weighs the last tick with a hundredth
EwmaHundredth(avg, elapsed) == (990 * avg + 10000 * elapsed) \div 1000

\* avg_tick_secs is an f64 of seconds; it is kept in whole microseconds,
\* rounded down.  elapsed is in milliseconds.
Ewma(avg, elapsed) == (999 * avg + 1000 * elapsed) \div 1000

\* A refill that pushes onto the entries of the last tick
RefillNoClear(v, attached) == v \o attached

\* lines 209-219: ClearVec::clear, then ClearVec::push for every attached
\* process, in the order of attached_processes(); push gives an element that
\* Clear::clear (lines 156-161) has emptied, which the write! and the
\* push_str then fill with the pid and the path
Refill(v, attached) ==
    LET cleared == SubSeq(v, 1, 0)
    IN cleared \o [k \in 1 .. Len(attached) |-> attached[k]]

\* The last Arc of instance i is dropped: the AutoSplitter is destroyed
Destroyed(f, i, initial) == [f EXCEPT ![i] = initial]

\* The instances a writer holds a handle of
WriterRefs == {wruntime[w] : w \in Writers}

\* DebuggerTimerState::log (the wall-clock time stamp is left out)
Log(message, ty) == Append(logs, [message |-> message, ty |-> ty])

\* Log entries a thread may still append in the operation it has begun
SchedPending ==
    IF spc \in {"lock", "update"} THEN 1
    ELSE IF spc \in {"processes", "drop", "usage", "slowest", "tick_rate",
                     "histogram", "avg_load", "avg_store", "log"} /\ res = "Err"
         THEN 1 ELSE 0
CtrlPending ==
    IF cpc = "idle" THEN 0
    ELSE IF cpc \in {"dump_try", "dump_write"} THEN 1
    ELSE IF succeeded THEN 1 ELSE 0
LogRoom(need) == Len(logs) + SchedPending + CtrlPending + need <= MaxLog

\* ---------------------------------------------------------- runtime_thread
\* line 202: shared_state.auto_splitter.load()
SchedLoadHandle ==
    /\ spc = "top"
    /\ s_auto_splitter' = auto_splitter
    /\ IF auto_splitter = NoInst
       THEN spc' = "idle"
       ELSE /\ LogRoom(1)
            /\ HistogramLen(tick_times) < MaxSamples
            /\ spc' = "lock"
    /\ UNCHANGED <<auto_splitter, statVars, instVars, timerVars, ctrlVars,
                   time_of_tick, res, s_memory, s_handles, s_avg, s_tick_rate,
                   next_tick, histVars, casVars, lockVars>>

\* line 203: auto_splitter.lock() blocks until the execution lock is free
SchedLock ==
    /\ spc = "lock"
    /\ exec_lock[s_auto_splitter] = {}
    /\ exec_lock' = [exec_lock EXCEPT ![s_auto_splitter] = @ \cup {"sched"}]
    /\ spc' = "update"
    /\ UNCHANGED <<auto_splitter, statVars, interrupted, stuck, timerVars,
                   ctrlVars, tickVars, s_tick_rate, next_tick, histVars,
                   casVars, lockVars, settings>>

\* lines 204-207: update() returns after `elapsed`; an update that is stuck
\* returns only as the trap an interrupt raises
SchedUpdate(env) ==
    /\ spc = "update"
    /\ ~stuck[s_auto_splitter] \/ interrupted[s_auto_splitter]
    /\ \E elapsed \in env.elapsed, r \in env.results \cup {"Err"}, m \in env.memory :
        /\ IF stuck[s_auto_splitter] THEN r = "Err" ELSE r \in env.results
        /\ time_of_tick' = elapsed
        /\ next_tick' = next_tick - elapsed
        /\ res' = r
        /\ s_memory' = m
        /\ since_reset' = IF missed THEN since_reset + elapsed ELSE 0
    /\ spc' = "processes"
    /\ UNCHANGED <<auto_splitter, statVars, instVars, timerVars, ctrlVars,
                   s_auto_splitter, s_handles, s_avg, s_tick_rate, missed,
                   casVars, lockVars>>

\* lines 208-219: processes.clear() and the refill, under the processes mutex
SchedProcesses(env) ==
    /\ spc = "processes"
    /\ \E attached \in env.processes : processes' = Refill(processes, attached)
    /\ spc' = "drop"
    /\ UNCHANGED <<auto_splitter, tick_rate, slowest_tick, memory_usage, handles,
                   avg_tick_secs, tick_times, instVars, timerVars, ctrlVars,
                   tickVars, s_tick_rate, next_tick, histVars, casVars, lockVars>>

\* lines 220-221: handles(), drop(auto_splitter_lock)
SchedDrop(env) ==
    /\ spc = "drop"
    /\ \E h \in env.handles : s_handles' = h
    /\ exec_lock' = [exec_lock EXCEPT ![s_auto_splitter] = @ \ {"sched"}]
    /\ spc' = "usage"
    /\ UNCHANGED <<auto_splitter, statVars, interrupted, stuck, timerVars,
                   ctrlVars, s_auto_splitter, time_of_tick, res, s_memory, s_avg,
                   s_tick_rate, next_tick, histVars, casVars, lockVars, settings>>

\* lines 223-228: memory_usage.store, handles.store
SchedStoreUsage ==
    /\ spc = "usage"
    /\ memory_usage' = s_memory
    /\ handles' = s_handles
    /\ spc' = "slowest"
    /\ UNCHANGED <<auto_splitter, tick_rate, slowest_tick, avg_tick_secs,
                   tick_times, processes, instVars, timerVars, ctrlVars, tickVars,
                   s_tick_rate, next_tick, histVars, casVars, lockVars>>

\* A slowest tick that is the time of the last tick
SchedSlowestLast ==
    /\ spc = "slowest"
    /\ slowest_tick' = time_of_tick
    /\ spc' = "tick_rate"
    /\ UNCHANGED <<auto_splitter, tick_rate, memory_usage, handles, avg_tick_secs,
                   tick_times, processes, instVars, timerVars, ctrlVars, tickVars,
                   s_tick_rate, next_tick, histVars, casVars, lockVars>>

\* lines 230-235
SchedSlowest ==
    /\ spc = "slowest"
    /\ slowest_tick' = IF time_of_tick > slowest_tick THEN time_of_tick
                       ELSE slowest_tick
    /\ spc' = "tick_rate"
    /\ UNCHANGED <<auto_splitter, tick_rate, memory_usage, handles, avg_tick_secs,
                   tick_times, processes, instVars, timerVars, ctrlVars, tickVars,
                   s_tick_rate, next_tick, histVars, casVars, lockVars>>

\* line 237 (and the same read at line 250): auto_splitter.tick_rate()
SchedTickRate(env) ==
    /\ spc = "tick_rate"
    /\ \E r \in env.rates : tick_rate' = r /\ s_tick_rate' = r
    /\ spc' = "histogram"
    /\ UNCHANGED <<auto_splitter, slowest_tick, memory_usage, handles,
                   avg_tick_secs, tick_times, processes, instVars, timerVars,
                   ctrlVars, tickVars, next_tick, histVars, casVars, lockVars>>

\* line 238: tick_times += time_of_tick
SchedHistogram ==
    /\ spc = "histogram"
    /\ tick_times' = HistogramRecord(tick_times, time_of_tick)
    /\ spc' = "avg_load"
    /\ UNCHANGED <<auto_splitter, tick_rate, slowest_tick, memory_usage, handles,
                   avg_tick_secs, processes, instVars, timerVars, ctrlVars,
                   tickVars, s_tick_rate, next_tick, histVars, casVars, lockVars>>

\* line 240: avg_tick_secs.load(Relaxed)
SchedAvgLoad ==
    /\ spc = "avg_load"
    /\ s_avg' = avg_tick_secs
    /\ spc' = "avg_store"
    /\ UNCHANGED <<auto_splitter, statVars, instVars, timerVars, ctrlVars,
                   s_auto_splitter, time_of_tick, res, s_memory, s_handles,
                   s_tick_rate, next_tick, histVars, casVars, lockVars>>

\* lines 239-243: avg_tick_secs.store(0.999 * avg + 0.001 * secs, Relaxed)
SchedAvgStore ==
    /\ spc = "avg_store"
    /\ avg_tick_secs' = Ewma(s_avg, time_of_tick)
    /\ spc' = "log"
    /\ UNCHANGED <<auto_splitter, tick_rate, slowest_tick, memory_usage, handles,
                   tick_times, processes, instVars, timerVars, ctrlVars, tickVars,
                   s_tick_rate, next_tick, histVars, casVars, lockVars>>

\* A runtime thread that ends with the first update that fails
SchedStopOnError ==
    /\ spc = "log"
    /\ logs' = IF res = "Err"
               THEN Log("Failed executing the auto splitter.", "Error")
               ELSE logs
    /\ spc' = IF res = "Err" THEN "stopped" ELSE "schedule"
    /\ s_auto_splitter' = NoInst
    /\ time_of_tick' = 0 /\ res' = "Ok" /\ s_memory' = 0 /\ s_handles' = 0
    /\ s_avg' = 0
    /\ UNCHANGED <<auto_splitter, statVars, instVars, stateVars, ctrlVars,
                   s_tick_rate, next_tick, histVars, casVars, lockVars>>

\* A runtime thread that keeps the handle it has and ticks it again
SchedTickAgain ==
    /\ spc = "log"
    /\ logs' = IF res = "Err"
               THEN Log("Failed executing the auto splitter.", "Error")
               ELSE logs
    /\ LogRoom(2)
    /\ HistogramLen(tick_times) < MaxSamples
    /\ time_of_tick' = 0 /\ res' = "Ok" /\ s_memory' = 0 /\ s_handles' = 0
    /\ s_avg' = 0
    /\ spc' = "lock"
    /\ UNCHANGED <<auto_splitter, statVars, instVars, stateVars, ctrlVars,
                   s_auto_splitter, s_tick_rate, next_tick, histVars, casVars, lockVars>>

\* lines 244-250: a failed update is logged; the tick goes on.  The block
\* ends: its locals and the loaded Arc are dropped.
SchedLogError ==
    /\ spc = "log"
    /\ logs' = IF res = "Err"
               THEN Log("Failed executing the auto splitter.", "Error")
               ELSE logs
    /\ IF s_auto_splitter \notin {auto_splitter, new_auto_splitter}
                                  \cup WriterRefs
       THEN /\ interrupted' = Destroyed(interrupted, s_auto_splitter, FALSE)
            /\ stuck' = Destroyed(stuck, s_auto_splitter, FALSE)
            /\ settings' = Destroyed(settings, s_auto_splitter, NewMap)
       ELSE UNCHANGED <<interrupted, stuck, settings>>
    /\ s_auto_splitter' = NoInst
    /\ time_of_tick' = 0 /\ res' = "Ok" /\ s_memory' = 0 /\ s_handles' = 0
    /\ s_avg' = 0
    /\ spc' = "schedule"
    /\ UNCHANGED <<auto_splitter, statVars, exec_lock, stateVars, ctrlVars,
                   s_tick_rate, next_tick, histVars, casVars, lockVars>>

\* An idle iteration that also zeroes the memory usage and the handle count
SchedIdleResetUsage ==
    /\ spc = "idle"
    /\ processes' = << >>
    /\ memory_usage' = 0 /\ handles' = 0
    /\ s_tick_rate' = IdleRate
    /\ spc' = "schedule"
    /\ UNCHANGED <<auto_splitter, tick_rate, slowest_tick, avg_tick_secs,
                   tick_times, instVars, timerVars, ctrlVars, tickVars,
                   next_tick, histVars, casVars, lockVars>>

\* lines 252-255: no auto splitter: clear the processes, tick at 10 Hz
SchedIdle ==
    /\ spc = "idle"
    /\ processes' = << >>
    /\ s_tick_rate' = IdleRate
    /\ spc' = "schedule"
    /\ UNCHANGED <<auto_splitter, tick_rate, slowest_tick, memory_usage, handles,
                   avg_tick_secs, tick_times, instVars, timerVars, ctrlVars,
                   tickVars, next_tick, histVars, casVars, lockVars>>

\* lines 258-262: next_tick += tick_rate; the tick is not missed: sleep until
\* next_tick (the thread may wake `over` late)
SchedSleep(env) ==
    /\ spc = "schedule"
    /\ next_tick + s_tick_rate >= 0
    /\ \E over \in env.over : next_tick' = 0 - over
    /\ s_tick_rate' = 0
    /\ missed' = FALSE /\ since_reset' = 0
    /\ spc' = "top"
    /\ UNCHANGED <<auto_splitter, statVars, instVars, timerVars, ctrlVars,
                   tickVars, casVars, lockVars>>

\* A missed tick that is caught up with: next_tick is left where it is
SchedCatchUp ==
    /\ spc = "schedule"
    /\ next_tick + s_tick_rate < 0
    /\ next_tick' = next_tick + s_tick_rate
    /\ s_tick_rate' = 0
    /\ missed' = TRUE /\ since_reset' = 0
    /\ spc' = "top"
    /\ UNCHANGED <<auto_splitter, statVars, instVars, timerVars, ctrlVars,
                   tickVars, casVars, lockVars>>

\* lines 258-269: next_tick += tick_rate; the tick is missed: next_tick = now
SchedMissed ==
    /\ spc = "schedule"
    /\ next_tick + s_tick_rate < 0
    /\ next_tick' = 0
    /\ s_tick_rate' = 0
    /\ missed' = TRUE /\ since_reset' = 0
    /\ spc' = "top"
    /\ UNCHANGED <<auto_splitter, statVars, instVars, timerVars, ctrlVars,
                   tickVars, casVars, lockVars>>

SchedStep(env) ==
    \/ SchedLoadHandle
    \/ SchedLock
    \/ SchedUpdate(env)
    \/ SchedProcesses(env)
    \/ SchedDrop(env)
    \/ SchedStoreUsage
    \/ SchedSlowest
    \/ SchedTickRate(env)
    \/ SchedHistogram
    \/ SchedAvgLoad
    \/ SchedAvgStore
    \/ SchedLogError
    \/ SchedIdle
    \/ SchedSleep(env)
    \/ SchedMissed

\* ------------------------------------------------------------ AppState::load
\* An instance no thread refers to (try_lock borrows the published one)
FreeInst == {i \in Inst : i \notin {auto_splitter, s_auto_splitter,
                                    new_auto_splitter} \cup WriterRefs}

\* The entry points of load: the file dialog and the command line (File),
\* the Optimize checkbox and a modified file (Reload), the Restart button,
\* which is shown only while an auto splitter is loaded (lines 140-142,
\* 323-326, 355-358, 812-817, 833).  A load begins only while the model
\* has room for its log entry and an instance for it to make.
CallLoad(env) ==
    /\ cpc = "idle"
    /\ LogRoom(1)
    /\ FreeInst # {}
    /\ \E kind \in env.kinds :
        /\ kind = "Restart" => auto_splitter # NoInst
        /\ load' = kind
    /\ succeeded' = TRUE
    /\ interrupts' = 0
    /\ log_mark' = Len(logs)
    /\ cpc' = "begin"
    /\ UNCHANGED <<auto_splitter, statVars, instVars, timerVars, appVars,
                   settings_map, new_auto_splitter, guardVars, schedVars,
                   casVars, lockVars>>

\* lines 967-980: set_script_path logs and calls load(Load::Restart)
SetScriptPath ==
    /\ cpc = "idle"
    /\ LogRoom(2)
    /\ FreeInst # {}
    /\ \E file \in Paths :
        /\ logs' = Log(IF script_path = file THEN "Script reloaded."
                       ELSE "Script loaded.", "Info")
        /\ script_path' = file
    /\ load' = "Restart"
    /\ succeeded' = TRUE
    /\ interrupts' = 0
    /\ log_mark' = Len(logs')
    /\ cpc' = "begin"
    /\ UNCHANGED <<auto_splitter, statVars, instVars, stateVars, path, module,
                   settings_map, new_auto_splitter, guardVars, schedVars,
                   casVars, lockVars>>

\* A load that carries no settings map over, whatever its kind
LoadBeginNoCarry ==
    /\ cpc = "begin"
    /\ IF load = "File"
       THEN \E p \in Paths : path' = p
       ELSE path' = path
    /\ settings_map' = NoMap
    /\ cpc' = "compile"
    /\ UNCHANGED <<auto_splitter, statVars, instVars, timerVars, script_path,
                   module, load, succeeded, new_auto_splitter, interrupts,
                   log_mark, guardVars, schedVars, casVars, lockVars>>

\* lines 880-891: the path of Load::File, the settings map carried over
LoadBegin ==
    /\ cpc = "begin"
    /\ IF load = "File"
       THEN \E p \in Paths : path' = p /\ settings_map' = NoMap
       ELSE /\ path' = path
            /\ settings_map' = IF auto_splitter = NoInst THEN NoMap
                               ELSE settings[auto_splitter]
    /\ cpc' = "compile"
    /\ UNCHANGED <<auto_splitter, statVars, instVars, timerVars, script_path,
                   module, load, succeeded, new_auto_splitter, interrupts,
                   log_mark, guardVars, schedVars, casVars, lockVars>>

\* A compile that keeps the module of the last success when it fails
LoadCompileKeepModule(env) ==
    /\ cpc = "compile"
    /\ IF load \in {"File", "Reload"} /\ path # "None"
       THEN \E r \in env.loads :
              IF r = "Ok"
              THEN /\ module' = "Some"
                   /\ UNCHANGED <<succeeded, logs>>
              ELSE /\ module' = module
                   /\ succeeded' = FALSE
                   /\ logs' = Log("Failed loading the auto splitter.", "Error")
       ELSE UNCHANGED <<module, succeeded, logs>>
    /\ cpc' = "instantiate"
    /\ UNCHANGED <<auto_splitter, statVars, instVars, stateVars, path,
                   script_path, load, settings_map, new_auto_splitter, interrupts,
                   log_mark, guardVars, schedVars, casVars, lockVars>>

\* lines 893-913: fs::read and Runtime::compile of File and Reload (a file
\* that cannot be read and one that does not compile log one entry alike)
LoadCompile(env) ==
    /\ cpc = "compile"
    /\ IF load \in {"File", "Reload"} /\ path # "None"
       THEN \E r \in env.loads :
              IF r = "Ok"
              THEN /\ module' = "Some"
                   /\ UNCHANGED <<succeeded, logs>>
              ELSE /\ module' = "None"
                   /\ succeeded' = FALSE
                   /\ logs' = Log("Failed loading the auto splitter.", "Error")
       ELSE UNCHANGED <<module, succeeded, logs>>
    /\ cpc' = "instantiate"
    /\ UNCHANGED <<auto_splitter, statVars, instVars, stateVars, path,
                   script_path, load, settings_map, new_auto_splitter, interrupts,
                   log_mark, guardVars, schedVars, casVars, lockVars>>

\* lines 915-937: CompiledAutoSplitter::instantiate
LoadInstantiate(env) ==
    /\ cpc = "instantiate"
    /\ IF module # "None"
       THEN \E r \in env.loads :
              IF r = "Ok"
              THEN /\ FreeInst # {}
                   /\ LET i == CHOOSE j \in FreeInst : \A k \in FreeInst : j <= k IN
                      /\ new_auto_splitter' = i
                      /\ exec_lock' = [exec_lock EXCEPT ![i] = {}]
                      /\ interrupted' = [interrupted EXCEPT ![i] = FALSE]
                      /\ \E b \in env.stuck : stuck' = [stuck EXCEPT ![i] = b]
                      /\ settings' = [settings EXCEPT ![i] =
                            IF settings_map = NoMap THEN NewMap
                            ELSE settings_map]
                   /\ UNCHANGED <<succeeded, logs>>
              ELSE /\ new_auto_splitter' = NoInst
                   /\ succeeded' = FALSE
                   /\ logs' = Log("Failed starting the auto splitter.", "Error")
                   /\ UNCHANGED instVars
       ELSE /\ new_auto_splitter' = NoInst
            /\ UNCHANGED <<succeeded, logs, instVars>>
    /\ cpc' = "guard"
    /\ UNCHANGED <<auto_splitter, statVars, stateVars, appVars, load,
                   settings_map, interrupts, log_mark, guardVars, schedVars,
                   casVars, lockVars>>

\* lines 175-178: kill_auto_splitter_if_it_doesnt_react loads the handle
GuardLoadHandle ==
    /\ cpc = "guard"
    /\ guard_as' = auto_splitter
    /\ cpc' = IF auto_splitter = NoInst THEN "store" ELSE "try"
    /\ UNCHANGED <<auto_splitter, statVars, instVars, timerVars, appVars,
                   loadVars, attempt, schedVars, casVars, lockVars>>

\* try_lock taking the guard without looking at the execution lock
TryLockNoCheck(a, locked, again) ==
    /\ attempt < LockAttempts
    /\ exec_lock' = [exec_lock EXCEPT ![a] = @ \cup {"ctrl"}]
    /\ attempt' = 0
    /\ cpc' = locked

\* try_lock written as the blocking lock(): it waits for the execution lock
TryLockBlocking(a, locked, again) ==
    /\ exec_lock[a] = {}
    /\ exec_lock' = [exec_lock EXCEPT ![a] = @ \cup {"ctrl"}]
    /\ attempt' = 0
    /\ cpc' = locked

\* lines 187-192: one pass of the loop of SharedState::try_lock on `a`: the
\* guard when the execution lock is free, else a sleep of 1 ms
TryLock(a, locked, again) ==
    /\ attempt < LockAttempts
    /\ IF exec_lock[a] = {}
       THEN /\ exec_lock' = [exec_lock EXCEPT ![a] = @ \cup {"ctrl"}]
            /\ attempt' = 0
            /\ cpc' = locked
       ELSE /\ attempt' = attempt + 1
            /\ cpc' = again
            /\ UNCHANGED exec_lock

\* lines 179, 184-192
GuardTryLock ==
    /\ cpc = "try"
    /\ TryLock(guard_as, "locked", "try")
    /\ UNCHANGED <<auto_splitter, statVars, interrupted, stuck, timerVars,
                   appVars, loadVars, guard_as, schedVars, casVars, lockVars, settings>>

\* line 179: the ExecutionGuard is a temporary of the condition, dropped at once
GuardUnlock ==
    /\ cpc = "locked"
    /\ exec_lock' = [exec_lock EXCEPT ![guard_as] = @ \ {"ctrl"}]
    /\ guard_as' = NoInst
    /\ cpc' = "store"
    /\ UNCHANGED <<auto_splitter, statVars, interrupted, stuck, timerVars,
                   appVars, loadVars, attempt, schedVars, casVars, lockVars, settings>>

\* A guard that interrupts whenever an attempt has failed
GuardInterruptEarly ==
    /\ cpc = "try"
    /\ attempt >= 1
    /\ interrupted' = [interrupted EXCEPT ![guard_as] = TRUE]
    /\ interrupts' = interrupts + 1
    /\ guard_as' = NoInst
    /\ attempt' = 0
    /\ cpc' = "store"
    /\ UNCHANGED <<auto_splitter, statVars, exec_lock, stuck, timerVars, appVars,
                   load, settings_map, succeeded, new_auto_splitter, log_mark,
                   schedVars, casVars, lockVars, settings>>

\* lines 194, 179-181: try_lock gave None: interrupt_handle().interrupt()
GuardInterrupt ==
    /\ cpc = "try"
    /\ attempt >= LockAttempts
    /\ interrupted' = [interrupted EXCEPT ![guard_as] = TRUE]
    /\ interrupts' = interrupts + 1
    /\ guard_as' = NoInst
    /\ attempt' = 0
    /\ cpc' = "store"
    /\ UNCHANGED <<auto_splitter, statVars, exec_lock, stuck, timerVars, appVars,
                   load, settings_map, succeeded, new_auto_splitter, log_mark,
                   schedVars, casVars, lockVars, settings>>

\* A store that keeps the old auto splitter when there is no new one
LoadStoreIfSome ==
    /\ cpc = "store"
    /\ auto_splitter' = IF new_auto_splitter = NoInst THEN auto_splitter
                        ELSE new_auto_splitter
    /\ new_auto_splitter' = NoInst
    /\ IF auto_splitter # NoInst /\ auto_splitter # s_auto_splitter
          /\ auto_splitter' # auto_splitter
       THEN /\ interrupted' = Destroyed(interrupted, auto_splitter, FALSE)
            /\ stuck' = Destroyed(stuck, auto_splitter, FALSE)
            /\ settings' = Destroyed(settings, auto_splitter, NewMap)
       ELSE UNCHANGED <<interrupted, stuck, settings>>
    /\ cpc' = "reset_slowest"
    /\ UNCHANGED <<statVars, exec_lock, timerVars, appVars, load, settings_map,
                   succeeded, interrupts, log_mark, guardVars, schedVars,
                   casVars, lockVars>>

\* line 940: auto_splitter.store(new_auto_splitter); the old Arc is dropped
LoadStore ==
    /\ cpc = "store"
    /\ auto_splitter' = new_auto_splitter
    /\ new_auto_splitter' = NoInst
    /\ IF auto_splitter # NoInst /\ auto_splitter # s_auto_splitter
          /\ auto_splitter \notin WriterRefs
       THEN /\ interrupted' = Destroyed(interrupted, auto_splitter, FALSE)
            /\ stuck' = Destroyed(stuck, auto_splitter, FALSE)
            /\ settings' = Destroyed(settings, auto_splitter, NewMap)
       ELSE UNCHANGED <<interrupted, stuck, settings>>
    /\ cpc' = "reset_slowest"
    /\ UNCHANGED <<statVars, exec_lock, timerVars, appVars, load, settings_map,
                   succeeded, interrupts, log_mark, guardVars, schedVars,
                   casVars, lockVars>>

\* line 942
LoadResetSlowest ==
    /\ cpc = "reset_slowest"
    /\ slowest_tick' = 0
    /\ cpc' = "reset_avg"
    /\ UNCHANGED <<auto_splitter, tick_rate, memory_usage, handles, avg_tick_secs,
                   tick_times, processes, instVars, timerVars, appVars, loadVars,
                   guardVars, schedVars, casVars, lockVars>>

\* A load that leaves the average as it is
LoadKeepAvg ==
    /\ cpc = "reset_avg"
    /\ cpc' = "reset_histogram"
    /\ UNCHANGED <<auto_splitter, statVars, instVars, timerVars, appVars,
                   loadVars, guardVars, schedVars, casVars, lockVars>>

\* lines 943-945
LoadResetAvg ==
    /\ cpc = "reset_avg"
    /\ avg_tick_secs' = 0
    /\ cpc' = "reset_histogram"
    /\ UNCHANGED <<auto_splitter, tick_rate, slowest_tick, memory_usage, handles,
                   tick_times, processes, instVars, timerVars, appVars, loadVars,
                   guardVars, schedVars, casVars, lockVars>>

\* line 946
LoadResetHistogram ==
    /\ cpc = "reset_histogram"
    /\ tick_times' = EmptyHistogram
    /\ cpc' = "timer"
    /\ UNCHANGED <<auto_splitter, tick_rate, slowest_tick, memory_usage, handles,
                   avg_tick_secs, processes, instVars, timerVars, appVars,
                   loadVars, guardVars, schedVars, casVars, lockVars>>

\* A reset that leaves the split index where it is
TimerResetKeepIndex(t) ==
    [t EXCEPT !.timer_state = "NotRunning",
              !.game_time = 0, !.game_time_state = "NotInitialized",
              !.variables = << >>]

\* lines 1194-1200: DebuggerTimerState::reset, on the timer fields t
TimerReset(t) == [t EXCEPT !.timer_state = "NotRunning", !.split_index = 0,
                           !.game_time = 0, !.game_time_state = "NotInitialized",
                           !.variables = << >>]

\* A clear that empties the log as well
TimerClearLogs(t) == [TimerReset(t) EXCEPT !.logs = << >>]

\* lines 1202-1204: DebuggerTimerState::clear
TimerClear(t) == TimerReset(t)

\* The fields of DebuggerTimerState as a record, and back
Timer == [timer_state |-> timer_state, split_index |-> split_index,
          game_time |-> game_time, game_time_state |-> game_time_state,
          variables |-> variables, logs |-> logs]
SetTimer(t) ==
    /\ timer_state' = t.timer_state
    /\ split_index' = t.split_index
    /\ game_time' = t.game_time
    /\ game_time_state' = t.game_time_state
    /\ variables' = t.variables
    /\ logs' = t.logs

\* A load that clears the timer whatever its kind
IsAnyLoad(l) == l \in {"File", "Reload", "Restart"}

\* line 949: if let Load::File(_) = load
IsFile(l) == l = "File"

\* lines 948-964: under the write lock of the timer: clear() for Load::File,
\* variables.clear(), the success entry
LoadFinish ==
    /\ cpc = "timer"
    /\ LET t1 == IF IsFile(load) THEN TimerClear(Timer) ELSE Timer
           t2 == [t1 EXCEPT !.variables = << >>]
           t3 == IF succeeded
                 THEN [t2 EXCEPT !.logs = Append(@,
                        [message |-> CASE load = "File" -> "Auto splitter loaded."
                                       [] load = "Reload" -> "Auto splitter reloaded."
                                       [] load = "Restart" -> "Auto splitter restarted.",
                         ty |-> "Info"])]
                 ELSE t2
       IN SetTimer(t3)
    /\ settings_map' = NoMap
    /\ log_mark' = 0
    /\ cpc' = "idle"
    /\ UNCHANGED <<auto_splitter, statVars, instVars, appVars, load, succeeded,
                   new_auto_splitter, interrupts, guardVars, schedVars,
                   casVars, lockVars>>

LoadStep(env) ==
    \/ LoadBegin
    \/ LoadCompile(env)
    \/ LoadInstantiate(env)
    \/ GuardLoadHandle
    \/ GuardTryLock
    \/ GuardUnlock
    \/ GuardInterrupt
    \/ LoadStore
    \/ LoadResetSlowest
    \/ LoadResetAvg
    \/ LoadResetHistogram
    \/ LoadFinish

\* ------------------------------------------------- TabViewer::ui, the buttons
\* A Kill that also takes the auto splitter out of the shared state
KillAndUnload ==
    /\ cpc = "idle"
    /\ auto_splitter # NoInst
    /\ interrupted' = [interrupted EXCEPT ![auto_splitter] = TRUE]
    /\ auto_splitter' = NoInst
    /\ UNCHANGED <<statVars, exec_lock, stuck, timerVars, ctrlVars, schedVars,
                   casVars, lockVars, settings>>

\* lines 323-329: Kill interrupts the loaded auto splitter
Kill ==
    /\ cpc = "idle"
    /\ auto_splitter # NoInst
    /\ interrupted' = [interrupted EXCEPT ![auto_splitter] = TRUE]
    /\ UNCHANGED <<auto_splitter, statVars, exec_lock, stuck, timerVars,
                   ctrlVars, schedVars, casVars, lockVars, settings>>

\* lines 449-450: Dump is shown while an auto splitter is loaded
DumpClick ==
    /\ cpc = "idle"
    /\ auto_splitter # NoInst
    /\ LogRoom(1)
    /\ guard_as' = auto_splitter
    /\ cpc' = "dump_try"
    /\ UNCHANGED <<auto_splitter, statVars, instVars, timerVars, appVars,
                   loadVars, attempt, schedVars, casVars, lockVars>>

\* lines 451, 184-192
DumpTryLock ==
    /\ cpc = "dump_try"
    /\ TryLock(guard_as, "dump_write", "dump_try")
    /\ UNCHANGED <<auto_splitter, statVars, interrupted, stuck, timerVars,
                   appVars, loadVars, guard_as, schedVars, casVars, lockVars, settings>>

\* lines 452-460: fs::write of the memory under the guard, which is then dropped
DumpWrite(env) ==
    /\ cpc = "dump_write"
    /\ \E r \in env.dumps :
         logs' = IF r = "Ok" THEN logs ELSE Log("Failed to dump memory", "Error")
    /\ exec_lock' = [exec_lock EXCEPT ![guard_as] = @ \ {"ctrl"}]
    /\ guard_as' = NoInst
    /\ cpc' = "idle"
    /\ UNCHANGED <<auto_splitter, statVars, interrupted, stuck, stateVars,
                   appVars, loadVars, attempt, schedVars, casVars, lockVars, settings>>

\* A Dump that interrupts the auto splitter when try_lock gave None
DumpTimeoutInterrupt ==
    /\ cpc = "dump_try"
    /\ attempt >= LockAttempts
    /\ logs' = Log("Timed out waiting for auto splitter.", "Error")
    /\ interrupted' = [interrupted EXCEPT ![guard_as] = TRUE]
    /\ guard_as' = NoInst
    /\ attempt' = 0
    /\ cpc' = "idle"
    /\ UNCHANGED <<auto_splitter, statVars, exec_lock, stuck, stateVars, appVars,
                   loadVars, schedVars, casVars, lockVars, settings>>

\* lines 194, 461-468: try_lock gave None: the time out is logged
DumpTimeout ==
    /\ cpc = "dump_try"
    /\ attempt >= LockAttempts
    /\ logs' = Log("Timed out waiting for auto splitter.", "Error")
    /\ guard_as' = NoInst
    /\ attempt' = 0
    /\ cpc' = "idle"
    /\ UNCHANGED <<auto_splitter, statVars, instVars, stateVars, appVars,
                   loadVars, schedVars, casVars, lockVars>>

\* lines 429-432: the Reset button of Slowest Tick
SlowestTickReset ==
    /\ cpc = "idle"
    /\ slowest_tick' = 0
    /\ UNCHANGED <<auto_splitter, tick_rate, memory_usage, handles, avg_tick_secs,
                   tick_times, processes, instVars, timerVars, ctrlVars,
                   schedVars, casVars, lockVars>>

\* A Clear that resets the tick rate along with the histogram
PerformanceClearAll ==
    /\ cpc = "idle"
    /\ tick_times' = EmptyHistogram
    /\ tick_rate' = 0
    /\ UNCHANGED <<auto_splitter, slowest_tick, memory_usage, handles,
                   avg_tick_secs, processes, instVars, timerVars, ctrlVars,
                   schedVars, casVars, lockVars>>

\* lines 678-682: the Clear button of the Performance tab
PerformanceClear ==
    /\ cpc = "idle"
    /\ tick_times' = EmptyHistogram
    /\ UNCHANGED <<auto_splitter, tick_rate, slowest_tick, memory_usage, handles,
                   avg_tick_secs, processes, instVars, timerVars, ctrlVars,
                   schedVars, casVars, lockVars>>

\* lines 502-504: the Clear button of the Logs tab
LogsClear ==
    /\ cpc = "idle"
    /\ logs' = << >>
    /\ UNCHANGED <<auto_splitter, statVars, instVars, stateVars, ctrlVars,
                   schedVars, casVars, lockVars>>

\* lines 1188-1192: DebuggerTimerState::start
TimerStart(t) == IF t.timer_state = "NotRunning"
                 THEN [t EXCEPT !.timer_state = "Running"] ELSE t

\* lines 367-370: the Start button, shown while NotRunning
UiStart ==
    /\ cpc = "idle"
    /\ timer_state = "NotRunning"
    /\ SetTimer(TimerStart(Timer))
    /\ UNCHANGED <<auto_splitter, statVars, instVars, ctrlVars, schedVars,
                   casVars, lockVars>>

\* lines 371-373: the Reset button, shown otherwise
UiReset ==
    /\ cpc = "idle"
    /\ timer_state # "NotRunning"
    /\ SetTimer(TimerReset(Timer))
    /\ UNCHANGED <<auto_splitter, statVars, instVars, ctrlVars, schedVars,
                   casVars, lockVars>>

\* ------------------------------- impl Timer for DebuggerTimer (lines 1097-1185)
\* The calls an auto splitter makes on its timer from inside update, each
\* under the write lock of the timer.  A call is an operator on the fields of
\* DebuggerTimerState; the values of TimerState are NotRunning, Running,
\* Paused and Ended.
Entry(message, ty) == [message |-> message, ty |-> ty]

\* A start that sets Running from every state
StartFromAny(t) ==
    [t EXCEPT !.timer_state = "Running",
              !.logs = Append(@, Entry("Timer started.", "Debug"))]

\* lines 1102-1108
Start(t) ==
    IF t.timer_state = "NotRunning"
    THEN [TimerStart(t) EXCEPT
            !.logs = Append(@, Entry("Timer started.", "Debug"))]
    ELSE t

\* A split that does not look at the state of the timer
SplitFromAny(t) ==
    [t EXCEPT !.split_index = @ + 1,
              !.logs = Append(@, Entry("Splitted.", "Debug"))]

\* lines 1110-1116
Split(t) ==
    IF t.timer_state = "Running"
    THEN [t EXCEPT !.split_index = @ + 1,
                   !.logs = Append(@, Entry("Splitted.", "Debug"))]
    ELSE t

\* A skip that ends the run
SkipSplitEnds(t) ==
    IF t.timer_state = "Running"
    THEN [t EXCEPT !.split_index = @ + 1, !.timer_state = "Ended",
                   !.logs = Append(@, Entry("Split skipped.", "Debug"))]
    ELSE t

\* lines 1118-1124
SkipSplit(t) ==
    IF t.timer_state = "Running"
    THEN [t EXCEPT !.split_index = @ + 1,
                   !.logs = Append(@, Entry("Split skipped.", "Debug"))]
    ELSE t

\* usize::saturating_sub
SaturatingSub(a, b) == IF a >= b THEN a - b ELSE 0

\* An undo with a plain subtraction
UndoSplitUnchecked(t) ==
    LET s == IF t.timer_state = "Ended"
             THEN [t EXCEPT !.timer_state = "Running"] ELSE t
    IN IF s.timer_state = "Running"
       THEN [s EXCEPT !.split_index = @ - 1,
                      !.logs = Append(@, Entry("Split undone.", "Debug"))]
       ELSE s

\* lines 1126-1135
UndoSplit(t) ==
    LET s == IF t.timer_state = "Ended"
             THEN [t EXCEPT !.timer_state = "Running"] ELSE t
    IN IF s.timer_state = "Running"
       THEN [s EXCEPT !.split_index = SaturatingSub(@, 1),
                      !.logs = Append(@, Entry("Split undone.", "Debug"))]
       ELSE s

\* A reset that leaves the variables
ResetKeepVariables(t) ==
    [TimerReset(t) EXCEPT !.variables = t.variables,
                          !.logs = Append(@, Entry("Run reset.", "Debug"))]

\* lines 1137-1141
Reset(t) ==
    [TimerReset(t) EXCEPT !.logs = Append(@, Entry("Run reset.", "Debug"))]

\* A set_game_time that sets the game time running whatever its state
SetGameTimeRunning(t, time) ==
    [t EXCEPT !.game_time = time, !.game_time_state = "Running"]

\* lines 1143-1149
SetGameTime(t, time) ==
    [t EXCEPT !.game_time = time,
              !.game_time_state = IF @ = "NotInitialized" THEN "Running" ELSE @]

\* lines 1151-1153
PauseGameTime(t) == [t EXCEPT !.game_time_state = "Paused"]

\* lines 1155-1157
ResumeGameTime(t) == [t EXCEPT !.game_time_state = "Running"]

\* IndexMap: the entries in the order of their insertion; the index of a key
\* (0: the key is not in the map)
IndexOf(vs, key) ==
    IF \E i \in 1 .. Len(vs) : vs[i].key = key
    THEN CHOOSE i \in 1 .. Len(vs) : vs[i].key = key
    ELSE 0

\* A set_variable that takes the key out and inserts it again
SetVariableReinsert(t, key, value) ==
    LET vs == t.variables
        rest == [j \in 1 .. Len(vs) - 1 |->
                    IF j < IndexOf(vs, key) THEN vs[j] ELSE vs[j + 1]]
    IN [t EXCEPT !.variables =
          Append(IF IndexOf(vs, key) = 0 THEN vs ELSE rest,
                 [key |-> key, value |-> value])]

\* lines 1159-1164: entry(key).or_default() gives the value of the key, which
\* is appended with an empty value if it was not there; clear(), push_str
SetVariable(t, key, value) ==
    LET i == IndexOf(t.variables, key)
        vs == IF i = 0 THEN Append(t.variables, [key |-> key, value |-> ""])
              ELSE t.variables
        j == IF i = 0 THEN Len(vs) ELSE i
    IN [t EXCEPT !.variables = [vs EXCEPT ![j].value = value]]

\* A call the auto splitter makes while the runtime thread is inside its
\* update, with t the timer the call leaves; a call that logs is made only
\* while the model has room for its entry
ModCall(t) ==
    /\ spc = "update"
    /\ Len(t.logs) > Len(logs) => LogRoom(1)
    /\ t.split_index <= MaxSplit
    /\ SetTimer(t)
    /\ UNCHANGED <<auto_splitter, statVars, instVars, ctrlVars, schedVars,
                   casVars, lockVars>>

ModStart == ModCall(Start(Timer))
ModSplit == ModCall(Split(Timer))
ModSkipSplit == ModCall(SkipSplit(Timer))
ModUndoSplit == ModCall(UndoSplit(Timer))
ModReset == ModCall(Reset(Timer))
ModSetGameTime(env) == \E time \in env.times : ModCall(SetGameTime(Timer, time))
ModPauseGameTime == ModCall(PauseGameTime(Timer))
ModResumeGameTime == ModCall(ResumeGameTime(Timer))
ModSetVariable(env) ==
    \E key \in env.keys, value \in env.values :
        ModCall(SetVariable(Timer, key, value))

\* ------------------------------------------- the edit of a setting (a widget)
\* lines 525-535, 825-841: the handle `runtime` is loaded, the widget has a
\* new value for its key
EditBegin(w) ==
    /\ wpc[w] = "idle"
    /\ auto_splitter # NoInst
    /\ edits[w] < MaxEdits
    /\ wruntime' = [wruntime EXCEPT ![w] = auto_splitter]
    /\ \E v \in Values \ {"unset"} : wvalue' = [wvalue EXCEPT ![w] = v]
    /\ edits' = [edits EXCEPT ![w] = @ + 1]
    /\ failed' = [failed EXCEPT ![w] = 0]
    /\ wpc' = [wpc EXCEPT ![w] = "read"]
    /\ UNCHANGED <<auto_splitter, lockVars, statVars, instVars, timerVars, ctrlVars,
                   schedVars, wold, wnew>>

\* lines 537, 598, 843: let old = runtime.settings_map()
EditRead(w) ==
    /\ wpc[w] = "read"
    /\ wold' = [wold EXCEPT ![w] = settings[wruntime[w]]]
    /\ wpc' = [wpc EXCEPT ![w] = "insert"]
    /\ UNCHANGED <<auto_splitter, lockVars, statVars, instVars, timerVars, ctrlVars,
                   schedVars, wruntime, wnew, wvalue, edits, failed>>

\* lines 538-542, 599-603, 844-848: new = old.clone(); new.insert(key, value):
\* a map of its own, with the identity that follows that of old
EditInsert(w) ==
    /\ wpc[w] = "insert"
    /\ wnew' = [wnew EXCEPT ![w] =
                  [id |-> wold[w].id + 1,
                   map |-> [wold[w].map EXCEPT ![KeyOf[w]] = wvalue[w]]]]
    /\ wpc' = [wpc EXCEPT ![w] = "cas"]
    /\ UNCHANGED <<auto_splitter, lockVars, statVars, instVars, timerVars, ctrlVars,
                   schedVars, wruntime, wold, wvalue, edits, failed>>

\* An edit that stores new whatever the map has become since old was read
EditStore(w) ==
    /\ wpc[w] = "cas"
    /\ settings' = [settings EXCEPT ![wruntime[w]] = wnew[w]]
    /\ wpc' = [wpc EXCEPT ![w] = "idle"]
    /\ wruntime' = [wruntime EXCEPT ![w] = NoInst]
    /\ wold' = [wold EXCEPT ![w] = NoMap]
    /\ wnew' = [wnew EXCEPT ![w] = NoMap]
    /\ UNCHANGED <<auto_splitter, lockVars, statVars, exec_lock, interrupted, stuck,
                   timerVars, ctrlVars, schedVars, wvalue, edits, failed>>

\* lines 543-545, 604-606, 849-851: set_settings_map_if_unchanged(&old, new)
\* stores new if the map is still old, and the loop breaks; else it goes round
EditTry(w) ==
    /\ wpc[w] = "cas"
    /\ IF settings[wruntime[w]].id = wold[w].id
       THEN /\ settings' = [settings EXCEPT ![wruntime[w]] = wnew[w]]
            /\ wpc' = [wpc EXCEPT ![w] = "idle"]
            /\ wruntime' = [wruntime EXCEPT ![w] = NoInst]
            /\ wold' = [wold EXCEPT ![w] = NoMap]
            /\ wnew' = [wnew EXCEPT ![w] = NoMap]
            /\ UNCHANGED failed
       ELSE /\ wpc' = [wpc EXCEPT ![w] = "read"]
            /\ failed' = [failed EXCEPT ![w] = @ + 1]
            /\ UNCHANGED <<settings, wruntime, wold, wnew>>
    /\ UNCHANGED <<auto_splitter, lockVars, statVars, exec_lock, interrupted, stuck,
                   timerVars, ctrlVars, schedVars, wvalue, edits>>

EditStep(w) == EditRead(w) \/ EditInsert(w) \/ EditTry(w)

\* lines 525-546: the edit loop of a widget runs on the user interface
\* thread, between two loads
UiEditBegin(w) == cpc = "idle" /\ EditBegin(w)
UiEditStep(w) == cpc = "idle" /\ EditStep(w)

\* ------------------------------------------------- the locks of the threads
\* The locks: the execution lock of the published auto splitter, the
\* mutexes of SharedState (lines 163-172) and the RwLock of the timer (the
\* user interface thread is its only reader, so that for the runtime thread
\* a read lock is a lock held by the other thread like a write lock)
Locks == {"execution", "processes", "slowest_tick", "tick_rate", "tick_times",
          "timer"}

\* What a thread does with a lock: lock() or write() or read(), which wait;
\* the drop of the guard; SharedState::try_lock (lines 184-195), after whose
\* last failed pass the thread goes on with `else`
Acquire(lock) == [op |-> "lock", lock |-> lock, else |-> << >>]
Release(lock) == [op |-> "unlock", lock |-> lock, else |-> << >>]
TryAcquire(lock, else) == [op |-> "try", lock |-> lock, else |-> else]
Hold(lock) == <<Acquire(lock), Release(lock)>>

\* lines 202-249: one iteration of the runtime thread with an auto splitter.
\* Under the execution lock update may call the timer (lines 1097-1185),
\* then the processes are refilled; after the drop come the statistics, and
\* the log of a failed update.
Tick(calls, err) ==
    <<Acquire("execution")>>
    \o (IF calls THEN Hold("timer") ELSE << >>)
    \o Hold("processes")
    \o <<Release("execution")>>
    \o Hold("slowest_tick") \o Hold("tick_rate") \o Hold("tick_times")
    \o (IF err THEN Hold("timer") ELSE << >>)

\* line 252: the iteration without an auto splitter
IdleTick == Hold("processes")

\* A load that takes the write lock of the timer first and waits for the
\* execution lock under it
LoadUnderTimerLock(err, loaded) ==
    <<Acquire("timer")>>
    \o (IF loaded THEN Hold("execution") ELSE << >>)
    \o Hold("slowest_tick") \o Hold("tick_times")
    \o <<Release("timer")>>

\* lines 879-965: load.  A failed compile or instantiate logs (906, 929);
\* the guard tries the execution lock of the published auto splitter, if
\* there is one, and drops it (939, 175-182); then slowest_tick and
\* tick_times are reset and the timer is written (942-964).
Load(err, loaded) ==
    LET reset == Hold("slowest_tick") \o Hold("tick_times") \o Hold("timer")
    IN (IF err THEN Hold("timer") ELSE << >>)
       \o (IF loaded
           THEN <<TryAcquire("execution", reset), Release("execution")>>
           ELSE << >>)
       \o reset

\* lines 449-469: Dump writes the file under the execution lock and logs a
\* failed write under it; with no lock it logs the time out
Dump(err) ==
    <<TryAcquire("execution", Hold("timer"))>>
    \o (IF err THEN Hold("timer") ELSE << >>)
    \o <<Release("execution")>>

\* What the user interface thread does in a frame: load (also after the
\* log of set_script_path, 967-981), Dump, the Timer tab (360-387), the
\* Variables tab (516), the Logs tab and its Clear (482, 503), the
\* Statistics tab with its Reset (402, 425, 430), the Processes tab (670),
\* the Performance tab (678)
Handlers ==
    {Load(err, loaded) : err \in BOOLEAN, loaded \in BOOLEAN}
    \cup {Hold("timer") \o Load(FALSE, loaded) : loaded \in BOOLEAN}
    \cup {Dump(err) : err \in BOOLEAN}
    \cup {Hold("timer"), Hold("timer") \o Hold("timer"),
          Hold("tick_rate") \o Hold("slowest_tick") \o Hold("slowest_tick"),
          Hold("processes"), Hold("tick_times")}

\* The iterations of the runtime thread
Iterations == {Tick(calls, err) : calls \in BOOLEAN, err \in BOOLEAN}
              \cup {IdleTick}

\* No lock is held and no thread is inside an iteration or a handler
LocksFree ==
    /\ owner = [l \in Locks |-> "none"]
    /\ rt = << >> /\ ui = << >> /\ tries = 0

\* Thread t, which has still to do p, does its first step and has then still
\* to do q.  A lock that is held makes lock() wait; a pass of try_lock that
\* finds it held sleeps 1 ms, and after LockAttempts of them try_lock gives
\* None.
Run(t, p, q) ==
    /\ p # << >>
    /\ LET o == Head(p) IN
       CASE o.op = "lock" ->
              /\ owner[o.lock] = "none"
              /\ owner' = [owner EXCEPT ![o.lock] = t]
              /\ q = Tail(p)
              /\ UNCHANGED tries
         [] o.op = "unlock" ->
              /\ owner' = [owner EXCEPT ![o.lock] = "none"]
              /\ q = Tail(p)
              /\ UNCHANGED tries
         [] o.op = "try" ->
              IF tries >= LockAttempts
              THEN /\ q = o.else
                   /\ tries' = 0
                   /\ UNCHANGED owner
              ELSE IF owner[o.lock] = "none"
              THEN /\ owner' = [owner EXCEPT ![o.lock] = t]
                   /\ q = Tail(p)
                   /\ tries' = 0
              ELSE /\ q = p
                   /\ tries' = tries + 1
                   /\ UNCHANGED owner

\* The runtime thread begins an iteration, and takes a step of it
RuntimeBegin ==
    /\ rt = << >>
    /\ \E p \in Iterations : rt' = p
    /\ UNCHANGED <<auto_splitter, statVars, instVars, timerVars, ctrlVars,
                   schedVars, casVars, owner, ui, tries>>
RuntimeRun ==
    /\ Run("sched", rt, rt')
    /\ UNCHANGED <<auto_splitter, statVars, instVars, timerVars, ctrlVars,
                   schedVars, casVars, ui>>

\* The user interface thread begins a handler, and takes a step of it
UiBegin ==
    /\ ui = << >>
    /\ \E p \in Handlers : ui' = p
    /\ UNCHANGED <<auto_splitter, statVars, instVars, timerVars, ctrlVars,
                   schedVars, casVars, owner, rt, tries>>
UiRun ==
    /\ Run("ctrl", ui, ui')
    /\ UNCHANGED <<auto_splitter, statVars, instVars, timerVars, ctrlVars,
                   schedVars, casVars, rt>>

NextLocks ==
    \/ RuntimeBegin
    \/ RuntimeRun
    \/ UiBegin
    \/ UiRun

\* ------------------------------------------------------------ specification
\* lines 75-85, 126-137, 199, 1038-1049: the state main builds
Init ==
    /\ auto_splitter = NoInst
    /\ tick_rate = 0 /\ slowest_tick = 0 /\ memory_usage = 0 /\ handles = 0
    /\ avg_tick_secs = 0
    /\ tick_times = EmptyHistogram
    /\ processes = << >>
    /\ exec_lock = [i \in Inst |-> {}]
    /\ interrupted = [i \in Inst |-> FALSE]
    /\ stuck = [i \in Inst |-> FALSE]
    /\ settings = [i \in Inst |-> NewMap]
    /\ timer_state = "NotRunning" /\ game_time = 0
    /\ game_time_state = "NotInitialized" /\ split_index = 0
    /\ variables = << >> /\ logs = << >>
    /\ path = "None" /\ script_path = "None" /\ module = "None"
    /\ cpc = "idle" /\ load = "File" /\ settings_map = NoMap /\ succeeded = TRUE
    /\ new_auto_splitter = NoInst /\ guard_as = NoInst /\ attempt = 0
    /\ interrupts = 0 /\ log_mark = 0
    /\ spc = "top" /\ s_auto_splitter = NoInst /\ time_of_tick = 0 /\ res = "Ok"
    /\ s_memory = 0 /\ s_handles = 0 /\ s_avg = 0 /\ s_tick_rate = 0
    /\ next_tick = 0
    /\ missed = FALSE /\ since_reset = 0
    /\ wpc = [w \in Writers |-> "idle"]
    /\ wruntime = [w \in Writers |-> NoInst]
    /\ wold = [w \in Writers |-> NoMap] /\ wnew = [w \in Writers |-> NoMap]
    /\ wvalue = [w \in Writers |-> "unset"]
    /\ edits = [w \in Writers |-> 0] /\ failed = [w \in Writers |-> 0]
    /\ LocksFree

\* What the environment does in a specification: which loads the user asks
\* for, whether compile and instantiate may fail, whether fs::write may,
\* whether an instance may be stuck in update, the durations and results of
\* update, the tick rates, memory sizes, handle counts and attached processes
\* the auto splitter reports, and how late a sleep may wake (a sleep that
\* wakes 2 ms late makes the next tick of a 1 ms tick rate a missed one).
EnvLock == [kinds |-> {"File"}, loads |-> {"Ok"},
            dumps |-> {"Ok", "Err"}, stuck |-> BOOLEAN, elapsed |-> {0},
            results |-> {"Ok"}, rates |-> {1}, over |-> {2}, memory |-> {0},
            handles |-> {0}, processes |-> {<< >>}]

\* The locks: the loads and Dump against the ticks
Next ==
    \/ CallLoad(EnvLock)
    \/ LoadStep(EnvLock)
    \/ LogsClear
    \/ DumpClick
    \/ DumpTryLock
    \/ DumpWrite(EnvLock)
    \/ DumpTimeout
    \/ SchedStep(EnvLock)

Spec == Init /\ [][Next]_vars

\* Kill: the loads and Kill against the ticks
EnvKill == [kinds |-> {"File", "Restart"}, loads |-> {"Ok"},
            dumps |-> {"Ok"}, stuck |-> BOOLEAN, elapsed |-> {0},
            results |-> {"Ok"}, rates |-> {1}, over |-> {2}, memory |-> {0},
            handles |-> {0}, processes |-> {<< >>}]

NextKill ==
    \/ CallLoad(EnvKill)
    \/ LoadStep(EnvKill)
    \/ Kill
    \/ LogsClear
    \/ SchedStep(EnvKill)

KillSpec == Init /\ [][NextKill]_vars

\* The same under the scheduling of the user interface thread: a load that
\* has begun keeps running.  Nothing is assumed of the runtime thread, and
\* every update it begins hangs until the auto splitter is interrupted.
EnvFair == [kinds |-> {"File", "Reload", "Restart"}, loads |-> {"Ok"},
            dumps |-> {"Ok"}, stuck |-> {TRUE}, elapsed |-> {0},
            results |-> {"Ok"}, rates |-> {1}, over |-> {2}, memory |-> {0},
            handles |-> {0}, processes |-> {<< >>}]

NextLoad ==
    \/ CallLoad(EnvFair)
    \/ LoadStep(EnvFair)
    \/ LogsClear
    \/ SchedStep(EnvFair)

FairSpec == Init /\ [][NextLoad]_vars /\ WF_vars(LoadStep(EnvFair))

\* The failures: loads of every kind, which may fail, against the ticks
EnvFail == [kinds |-> {"File", "Reload", "Restart"}, loads |-> {"Ok", "Err"},
            dumps |-> {"Ok"}, stuck |-> {FALSE}, elapsed |-> {0},
            results |-> {"Ok"}, rates |-> {1}, over |-> {2}, memory |-> {0},
            handles |-> {0}, processes |-> {<< >>}]

NextFail ==
    \/ CallLoad(EnvFail)
    \/ LoadStep(EnvFail)
    \/ LogsClear
    \/ SchedStep(EnvFail)

FailSpec == Init /\ [][NextFail]_vars

\* The script: loads of every kind, which may fail, and the script path set
\* from the file dialog, which restarts whatever module the last compile left
NextScript ==
    \/ CallLoad(EnvFail)
    \/ SetScriptPath
    \/ LoadStep(EnvFail)
    \/ LogsClear
    \/ SchedStep(EnvFail)

ScriptSpec == Init /\ [][NextScript]_vars

\* The processes: ticks of an auto splitter that is attached to the game, or
\* to its launcher and the game, against loads that may fail
EnvProc == [kinds |-> {"File"}, loads |-> {"Ok", "Err"},
            dumps |-> {"Ok"}, stuck |-> {FALSE}, elapsed |-> {0},
            results |-> {"Ok"}, rates |-> {1}, over |-> {2}, memory |-> {0},
            handles |-> {0},
            processes |-> {<<"game">>, <<"launcher", "game">>}]

NextProc ==
    \/ CallLoad(EnvProc)
    \/ LoadStep(EnvProc)
    \/ LogsClear
    \/ SchedStep(EnvProc)

ProcSpec == Init /\ [][NextProc]_vars

\* The locks: the iterations of the runtime thread against the handlers of
\* the user interface thread, lock by lock
LockSpec == Init /\ [][NextLocks]_vars

\* The timer and its log: loads of a file and restarts against Start, Reset
\* and the Clear of the Logs tab
EnvLog == [kinds |-> {"File", "Restart"}, loads |-> {"Ok"},
           dumps |-> {"Ok"}, stuck |-> {FALSE}, elapsed |-> {0},
           results |-> {"Ok"}, rates |-> {1}, over |-> {2}, memory |-> {0},
           handles |-> {0}, processes |-> {<< >>}]

NextLog ==
    \/ CallLoad(EnvLog)
    \/ LoadStep(EnvLog)
    \/ LogsClear
    \/ UiStart
    \/ UiReset
    \/ SchedStep(EnvLog)

LogSpec == Init /\ [][NextLog]_vars

\* The statistics: ticks that take time and report a tick rate, memory,
\* handles and a process, against the loads and the Reset and Clear buttons
EnvStat == [kinds |-> {"File", "Reload", "Restart"}, loads |-> {"Ok"},
            dumps |-> {"Ok"}, stuck |-> {FALSE}, elapsed |-> {1},
            results |-> {"Ok"}, rates |-> {2}, over |-> {2}, memory |-> {1},
            handles |-> {1}, processes |-> {<<"game">>}]

NextStat ==
    \/ CallLoad(EnvStat)
    \/ LoadStep(EnvStat)
    \/ SlowestTickReset
    \/ PerformanceClear
    \/ LogsClear
    \/ SchedStep(EnvStat)

StatSpec == Init /\ [][NextStat]_vars

\* The schedule: ticks of 1 or 3 ms at a tick rate of 2 ms, sleeps that wake
\* in time or 5 ms late (more than two ticks)
EnvTick == [kinds |-> {"File"}, loads |-> {"Ok"},
            dumps |-> {"Ok"}, stuck |-> {FALSE}, elapsed |-> {1, 3},
            results |-> {"Ok"}, rates |-> {2}, over |-> {0, 5},
            memory |-> {0}, handles |-> {0}, processes |-> {<< >>}]

NextTick ==
    \/ CallLoad(EnvTick)
    \/ LoadStep(EnvTick)
    \/ SchedStep(EnvTick)

TickSpec == Init /\ [][NextTick]_vars

\* The settings: two contexts edit the settings of a loaded auto splitter at
\* once, each a key of its own, each with its edit loop.  The state at the
\* start is the one the load of a file ends in; every writer that is inside
\* its loop keeps running.
CasInit ==
    /\ auto_splitter = 1
    /\ tick_rate = 0 /\ slowest_tick = 0 /\ memory_usage = 0 /\ handles = 0
    /\ avg_tick_secs = 0
    /\ tick_times = EmptyHistogram
    /\ processes = << >>
    /\ exec_lock = [i \in Inst |-> {}]
    /\ interrupted = [i \in Inst |-> FALSE]
    /\ stuck = [i \in Inst |-> FALSE]
    /\ settings = [i \in Inst |-> NewMap]
    /\ timer_state = "NotRunning" /\ game_time = 0
    /\ game_time_state = "NotInitialized" /\ split_index = 0
    /\ variables = << >>
    /\ logs = <<[message |-> "Auto splitter loaded.", ty |-> "Info"]>>
    /\ path = "a.wasm" /\ script_path = "None" /\ module = "Some"
    /\ cpc = "idle" /\ load = "File" /\ settings_map = NoMap /\ succeeded = TRUE
    /\ new_auto_splitter = NoInst /\ guard_as = NoInst /\ attempt = 0
    /\ interrupts = 0 /\ log_mark = 0
    /\ spc = "top" /\ s_auto_splitter = NoInst /\ time_of_tick = 0 /\ res = "Ok"
    /\ s_memory = 0 /\ s_handles = 0 /\ s_avg = 0 /\ s_tick_rate = 0
    /\ next_tick = 0
    /\ missed = FALSE /\ since_reset = 0
    /\ wpc = [w \in Writers |-> "idle"]
    /\ wruntime = [w \in Writers |-> NoInst]
    /\ wold = [w \in Writers |-> NoMap] /\ wnew = [w \in Writers |-> NoMap]
    /\ wvalue = [w \in Writers |-> "unset"]
    /\ edits = [w \in Writers |-> 0] /\ failed = [w \in Writers |-> 0]
    /\ LocksFree

NextCas == \E w \in Writers : EditBegin(w) \/ EditStep(w)

CasSpec ==
    CasInit /\ [][NextCas]_vars /\ \A w \in Writers : WF_vars(EditStep(w))

\* The timer: the calls of a loaded auto splitter on its timer, from inside
\* the updates of the runtime thread, against the Start and Reset buttons.
\* The state at the start is the one main builds, without a file or with a
\* file loaded and the log cleared.  No operation of the program sets
\* TimerState::Paused or TimerState::Ended, which the operations of the timer
\* do handle: the timer starts in any of the four states.
TimerStates == {"NotRunning", "Running", "Paused", "Ended"}

TimerInit ==
    /\ auto_splitter \in {NoInst, 1}
    /\ tick_rate = 0 /\ slowest_tick = 0 /\ memory_usage = 0 /\ handles = 0
    /\ avg_tick_secs = 0
    /\ tick_times = EmptyHistogram
    /\ processes = << >>
    /\ exec_lock = [i \in Inst |-> {}]
    /\ interrupted = [i \in Inst |-> FALSE]
    /\ stuck = [i \in Inst |-> FALSE]
    /\ settings = [i \in Inst |-> NewMap]
    /\ timer_state \in TimerStates /\ game_time = 0
    /\ game_time_state = "NotInitialized" /\ split_index = 0
    /\ variables = << >>
    /\ logs = << >>
    /\ path = (IF auto_splitter = NoInst THEN "None" ELSE "a.wasm")
    /\ script_path = "None"
    /\ module = (IF auto_splitter = NoInst THEN "None" ELSE "Some")
    /\ cpc = "idle" /\ load = "File" /\ settings_map = NoMap /\ succeeded = TRUE
    /\ new_auto_splitter = NoInst /\ guard_as = NoInst /\ attempt = 0
    /\ interrupts = 0 /\ log_mark = 0
    /\ spc = "top" /\ s_auto_splitter = NoInst /\ time_of_tick = 0 /\ res = "Ok"
    /\ s_memory = 0 /\ s_handles = 0 /\ s_avg = 0 /\ s_tick_rate = 0
    /\ next_tick = 0
    /\ missed = FALSE /\ since_reset = 0
    /\ wpc = [w \in Writers |-> "idle"]
    /\ wruntime = [w \in Writers |-> NoInst]
    /\ wold = [w \in Writers |-> NoMap] /\ wnew = [w \in Writers |-> NoMap]
    /\ wvalue = [w \in Writers |-> "unset"]
    /\ edits = [w \in Writers |-> 0] /\ failed = [w \in Writers |-> 0]
    /\ LocksFree

EnvTimer == [kinds |-> {"File"}, loads |-> {"Ok"},
             dumps |-> {"Ok"}, stuck |-> {FALSE}, elapsed |-> {0},
             results |-> {"Ok"}, rates |-> {1}, over |-> {2}, memory |-> {0},
             handles |-> {0}, processes |-> {<< >>},
             times |-> 0 .. MaxTime, keys |-> {"x"}, values |-> {"1"}]

NextTimer ==
    \/ SchedStep(EnvTimer)
    \/ ModStart
    \/ ModSplit
    \/ ModSkipSplit
    \/ ModUndoSplit
    \/ ModReset
    \/ ModSetGameTime(EnvTimer)
    \/ ModPauseGameTime
    \/ ModResumeGameTime
    \/ ModSetVariable(EnvTimer)
    \/ UiStart
    \/ UiReset
    \/ PerformanceClear
    \/ LogsClear

TimerSpec == TimerInit /\ [][NextTimer]_vars

\* The phase of the timer: from the start of the program, loads of a file
\* against every call an auto splitter can make on the timer and the Start
\* and Reset buttons
NextPhase ==
    \/ CallLoad(EnvTimer)
    \/ LoadStep(EnvTimer)
    \/ SchedStep(EnvTimer)
    \/ ModStart
    \/ ModSplit
    \/ ModSkipSplit
    \/ ModUndoSplit
    \/ ModReset
    \/ ModSetGameTime(EnvTimer)
    \/ ModPauseGameTime
    \/ ModResumeGameTime
    \/ ModSetVariable(EnvTimer)
    \/ UiStart
    \/ UiReset
    \/ LogsClear

PhaseSpec == Init /\ [][NextPhase]_vars

\* The variables: an auto splitter that sets three variables to two values,
\* in any order and any number of times, against the resets
EnvVar == [kinds |-> {"File"}, loads |-> {"Ok"},
           dumps |-> {"Ok"}, stuck |-> {FALSE}, elapsed |-> {0},
           results |-> {"Ok"}, rates |-> {1}, over |-> {2}, memory |-> {0},
           handles |-> {0}, processes |-> {<< >>},
           times |-> {0}, keys |-> {"x", "y", "z"}, values |-> {"1", "2"}]

NextVar ==
    \/ SchedStep(EnvVar)
    \/ ModSetVariable(EnvVar)
    \/ ModReset
    \/ UiStart
    \/ UiReset
    \/ PerformanceClear
    \/ LogsClear

VarSpec == TimerInit /\ [][NextVar]_vars

\* The timer across the loads: an auto splitter that starts and splits the
\* run, sets a game time and a variable, against loads of every kind
EnvKeep == [kinds |-> {"File", "Reload", "Restart"}, loads |-> {"Ok"},
            dumps |-> {"Ok"}, stuck |-> {FALSE}, elapsed |-> {0},
            results |-> {"Ok"}, rates |-> {1}, over |-> {2}, memory |-> {0},
            handles |-> {0}, processes |-> {<< >>},
            times |-> {1}, keys |-> {"x"}, values |-> {"1"}]

NextKeep ==
    \/ CallLoad(EnvKeep)
    \/ LoadStep(EnvKeep)
    \/ SchedStep(EnvKeep)
    \/ ModSplit
    \/ ModSetGameTime(EnvKeep)
    \/ ModSetVariable(EnvKeep)

\* The state main builds, without a file or with a file loaded and the log
\* cleared, the timer started by the Start button
KeepInit == TimerInit /\ timer_state = "Running"

KeepSpec == KeepInit /\ [][NextKeep]_vars

\* The settings across the loads: one context edits its key of the settings
\* of the loaded auto splitter, against loads of every kind, which may fail
EnvSet == [kinds |-> {"File", "Reload", "Restart"}, loads |-> {"Ok", "Err"},
           dumps |-> {"Ok"}, stuck |-> {FALSE}, elapsed |-> {0},
           results |-> {"Ok"}, rates |-> {1}, over |-> {2}, memory |-> {0},
           handles |-> {0}, processes |-> {<< >>}]

NextSet ==
    \/ CallLoad(EnvSet)
    \/ LoadStep(EnvSet)
    \/ SchedStep(EnvSet)
    \/ UiEditBegin("first")
    \/ UiEditStep("first")

SetSpec == Init /\ [][NextSet]_vars

\* The failures of update: ticks of 1 ms whose update may fail, against the
\* loads of a file and the Clear of the Logs tab.  The runtime thread is a
\* thread of its own that nothing stops: a step it can take, it takes.
EnvErr == [kinds |-> {"File"}, loads |-> {"Ok"},
           dumps |-> {"Ok"}, stuck |-> {FALSE}, elapsed |-> {1},
           results |-> {"Ok", "Err"}, rates |-> {2}, over |-> {2},
           memory |-> {1}, handles |-> {1}, processes |-> {<<"game">>}]

NextErr ==
    \/ CallLoad(EnvErr)
    \/ LoadStep(EnvErr)
    \/ LogsClear
    \/ SchedStep(EnvErr)

ErrSpec == Init /\ [][NextErr]_vars /\ WF_vars(SchedStep(EnvErr))

\* The statistics across the failures: ticks that take time and report a
\* memory size, handles and a process, against loads of every kind, which
\* may fail
EnvFailStat == [kinds |-> {"File", "Reload", "Restart"},
                loads |-> {"Ok", "Err"},
                dumps |-> {"Ok"}, stuck |-> {FALSE}, elapsed |-> {1},
                results |-> {"Ok"}, rates |-> {2}, over |-> {2},
                memory |-> {1}, handles |-> {1}, processes |-> {<<"game">>}]

NextFailStat ==
    \/ CallLoad(EnvFailStat)
    \/ LoadStep(EnvFailStat)
    \/ LogsClear
    \/ SchedStep(EnvFailStat)

FailStatSpec == Init /\ [][NextFailStat]_vars

\* ------------------------------------------------------------------ claims
LoadPcs == {"begin", "compile", "instantiate", "guard", "try", "locked",
            "store", "reset_slowest", "reset_avg", "reset_histogram", "timer"}
LoadFailures == {"Failed loading the auto splitter.",
                 "Failed starting the auto splitter."}
LoadSuccesses == {"Auto splitter loaded.", "Auto splitter reloaded.",
                  "Auto splitter restarted."}
\* The step on which load returns
LoadReturns == cpc = "timer" /\ cpc' = "idle"
\* The entries of log l after its first n whose message is in the set ms
EntriesSince(l, n, ms) == {k \in (n + 1) .. Len(l) : l[k].message \in ms}

\* C1: a load that has begun returns even if the runtime thread never gives
\* up the execution lock: the guard tries the lock at most LockAttempts times,
\* then interrupts the old auto splitter, exactly once in that load, and the
\* store publishes the new handle whatever the old auto splitter does.
LoadCompletesAndInterruptsOnce ==
    /\ (cpc \in LoadPcs) ~> (cpc = "idle")
    /\ [](attempt <= LockAttempts /\ interrupts <= 1)
    /\ [][cpc = "try" /\ attempt >= LockAttempts /\ cpc' # cpc
          => /\ interrupts' = 1
             /\ interrupted'[guard_as]
             /\ cpc' = "store"]_vars
    /\ [][interrupts' # interrupts /\ interrupts' # 0
          => cpc = "try" /\ attempt = LockAttempts]_vars
    /\ [][cpc = "store" /\ cpc' # "store"
          => auto_splitter' = new_auto_splitter]_vars

\* C1 witness: the new handle is published after one interrupt while the old
\* auto splitter is still inside update, holding its execution lock
PublishedWhileOldHoldsLock ==
    /\ cpc = "reset_slowest" /\ interrupts = 1
    /\ spc = "update" /\ s_auto_splitter # NoInst
    /\ exec_lock[s_auto_splitter] = {"sched"}
    /\ stuck[s_auto_splitter]
    /\ auto_splitter # s_auto_splitter /\ auto_splitter # NoInst

\* C3: no two threads hold the execution lock of one instance at once, the
\* user interface thread holds it only in the guard of load and in Dump, for
\* the instance it called try_lock on, and it gets it only by a pass of
\* try_lock that found the lock free before the attempts ran out.
ExecutionLockExclusive ==
    /\ [](\A i \in Inst :
            /\ Cardinality(exec_lock[i]) <= 1
            /\ "ctrl" \in exec_lock[i]
                  => cpc \in {"locked", "dump_write"} /\ guard_as = i
            /\ "sched" \in exec_lock[i]
                  => spc \in {"update", "processes", "drop"}
                     /\ s_auto_splitter = i)
    /\ [][\A i \in Inst :
            "ctrl" \in exec_lock'[i] /\ "ctrl" \notin exec_lock[i]
               => /\ cpc \in {"try", "dump_try"}
                  /\ attempt < LockAttempts
                  /\ exec_lock[i] = {}]_vars

\* C3 witness: the user interface thread holds the execution lock (in Dump)
\* while the runtime thread waits for it
CtrlHoldsWhileSchedWaits ==
    \E i \in Inst : /\ exec_lock[i] = {"ctrl"} /\ cpc = "dump_write"
                    /\ spc = "lock" /\ s_auto_splitter = i

\* C4 as stated: when the attempts of a try_lock of the user interface thread
\* (load or Dump) have run out, the auto splitter is interrupted.
ExhaustedLockInterrupts ==
    [][attempt >= LockAttempts /\ cpc \in {"try", "dump_try"} /\ cpc' # cpc
       => (interrupted'[guard_as])]_vars

\* C4 amended: a try_lock of the user interface thread makes at most
\* LockAttempts attempts and the thread can always take its next step; when
\* the attempts have run out, load interrupts the auto splitter and goes on
\* to the store, while Dump interrupts nothing: it logs the time out as an
\* Error and gives up.
ControlLockBounded ==
    /\ [](attempt <= LockAttempts)
    /\ [](cpc \in {"try", "dump_try"}
            => ENABLED (GuardTryLock \/ GuardInterrupt
                        \/ DumpTryLock \/ DumpTimeout))
    /\ [][cpc = "try" /\ attempt >= LockAttempts /\ cpc' # cpc
          => interrupted'[guard_as] /\ cpc' = "store"]_vars
    /\ [][cpc = "dump_try" /\ attempt >= LockAttempts /\ cpc' # cpc
          => /\ interrupted' = interrupted
             /\ exec_lock' = exec_lock
             /\ logs' = Append(logs,
                   [message |-> "Timed out waiting for auto splitter.",
                    ty |-> "Error"])
             /\ cpc' = "idle"]_vars

\* C4 witness: Dump has timed out on an auto splitter that nobody interrupted
DumpTimedOut ==
    /\ cpc = "idle" /\ Len(logs) > 0
    /\ logs[Len(logs)].message = "Timed out waiting for auto splitter."
    /\ auto_splitter # NoInst /\ ~interrupted[auto_splitter]
    /\ exec_lock[auto_splitter] = {"sched"}

\* C6: when a load in which compile or instantiate failed returns, no auto
\* splitter is published, the load has appended exactly one Error entry and
\* no success entry.
FailedLoadUnloads ==
    [][LoadReturns /\ ~succeeded
       => /\ auto_splitter' = NoInst
          /\ Cardinality(EntriesSince(logs', log_mark, LoadFailures)) = 1
          /\ \A k \in EntriesSince(logs', log_mark, LoadFailures) :
               logs'[k].ty = "Error"
          /\ EntriesSince(logs', log_mark, LoadSuccesses) = {}]_vars

\* C6 witness: a failed load has returned and has unpublished the auto
\* splitter that the runtime thread is still ticking
FailedLoadReturned ==
    /\ cpc = "idle" /\ ~succeeded
    /\ auto_splitter = NoInst /\ s_auto_splitter # NoInst
    /\ Len(logs) > 0 /\ logs[Len(logs)].message \in LoadFailures

\* C10 as stated: Kill leaves no auto splitter published.
KillUnloads == [][Kill => auto_splitter' = NoInst]_vars

\* C10 amended: Kill interrupts the published auto splitter and leaves it
\* published; the handle changes only in the store of a load.
KillOnlyInterrupts ==
    /\ [][Kill => /\ auto_splitter' = auto_splitter
                  /\ auto_splitter' # NoInst
                  /\ (interrupted'[auto_splitter'])]_vars
    /\ [][auto_splitter' # auto_splitter => cpc = "store"]_vars

\* C10 witness: after Kill the interrupted auto splitter is still published
KilledStillPublished ==
    /\ cpc = "idle" /\ auto_splitter # NoInst /\ interrupted[auto_splitter]

\* The step on which a load of a file path returns
FreshLoadReturns == LoadReturns /\ load = "File"

\* C8 as stated: when a load of a file path returns, none of the log_mark
\* entries the log held when the load began is left in it (the log holds
\* nothing but what was appended since).
FreshLoadClearsLog ==
    [][FreshLoadReturns
       => Len(logs') <= Len(logs) - log_mark + (IF succeeded THEN 1 ELSE 0)]_vars

\* C8 amended: a load of a file path resets the timer (not running, split
\* index 0, game time 0 and not initialized, no variables) and keeps the
\* whole log: it only appends its own entry.  The log loses entries only by
\* the Clear button of the Logs tab.
FreshLoadKeepsLog ==
    /\ [][FreshLoadReturns
          => /\ timer_state' = "NotRunning" /\ split_index' = 0
             /\ game_time' = 0 /\ game_time_state' = "NotInitialized"
             /\ variables' = << >>
             /\ Len(logs') >= Len(logs)
             /\ SubSeq(logs', 1, Len(logs)) = logs]_vars
    /\ [][LoadReturns /\ load # "File"
          => timer_state' = timer_state /\ SubSeq(logs', 1, Len(logs)) = logs]_vars
    /\ [][Len(logs') < Len(logs) => cpc = "idle" /\ cpc' = "idle"]_vars

\* C8 witness: a load of a file path has returned, while the timer was
\* running, with its success entry behind the entry of an earlier restart
OldEntryAfterFreshLoad ==
    /\ cpc = "idle" /\ load = "File" /\ succeeded
    /\ Len(logs) = 2
    /\ logs[1].message = "Auto splitter restarted."
    /\ logs[2].message = "Auto splitter loaded."
    /\ timer_state = "NotRunning"

\* C7 as stated: when a load returns, the tick rate, the slowest tick, the
\* average, the histogram and the processes are all zero or empty.
LoadReturnsWithStatsEmpty ==
    [][LoadReturns
       => /\ tick_rate' = 0 /\ slowest_tick' = 0 /\ avg_tick_secs' = 0
          /\ tick_times' = EmptyHistogram
          /\ processes' = << >>]_vars

\* C7 amended: a load of any kind resets the slowest tick, then the average,
\* then the histogram, each in its own step and without stopping the runtime
\* thread; no step of a load writes the tick rate, the processes, the memory
\* usage or the handle count.
LoadResetsThreeStats ==
    /\ [][cpc = "reset_slowest" /\ cpc' # cpc
          => slowest_tick' = 0 /\ cpc' = "reset_avg"]_vars
    /\ [][cpc = "reset_avg" /\ cpc' # cpc
          => avg_tick_secs' = 0 /\ cpc' = "reset_histogram"]_vars
    /\ [][cpc = "reset_histogram" /\ cpc' # cpc
          => tick_times' = EmptyHistogram /\ cpc' = "timer"]_vars
    /\ [][cpc' # cpc /\ cpc \in LoadPcs
          => /\ tick_rate' = tick_rate /\ processes' = processes
             /\ memory_usage' = memory_usage /\ handles' = handles]_vars

\* C7 witness: a load has returned and reset the three, the runtime thread
\* is between two ticks, and the tick rate and the processes of the earlier
\* ticks are still there
LoadReturnedWithTickRate ==
    /\ cpc = "idle" /\ spc = "top"
    /\ Len(logs) > 0 /\ logs[Len(logs)].message \in LoadSuccesses
    /\ slowest_tick = 0 /\ avg_tick_secs = 0 /\ tick_times = EmptyHistogram
    /\ tick_rate # 0 /\ processes # << >>

\* C9 as stated: every change of the tick rate, the slowest tick, the
\* average, the histogram, the memory usage, the handle count and the
\* processes is a step of the runtime thread.
OnlySchedWritesStats == [][statVars' # statVars => spc' # spc]_vars

\* C9 amended: the runtime thread is the only writer of the tick rate, the
\* memory usage, the handle count and the processes; the user interface
\* thread writes the slowest tick, the average and the histogram, but only
\* to reset them to zero or empty.
OnlySchedWritesRateAndUsage ==
    /\ [][<<tick_rate, memory_usage, handles, processes>>'
             # <<tick_rate, memory_usage, handles, processes>>
          => spc' # spc]_vars
    /\ [][spc' = spc
          => /\ slowest_tick' \in {slowest_tick, 0}
             /\ avg_tick_secs' \in {avg_tick_secs, 0}
             /\ tick_times' \in {tick_times, EmptyHistogram}]_vars

\* C9 witness: the Reset button has zeroed a slowest tick the runtime thread
\* had recorded: the histogram still holds the tick that took time
SlowestResetByButton ==
    /\ cpc = "idle" /\ spc = "top" /\ slowest_tick = 0
    /\ \E k \in 1 .. Len(tick_times) : tick_times[k] > 0

\* The step that ends a tick: next_tick += tick_rate and the sleep or the reset
Schedules == spc = "schedule" /\ spc' = "top"

\* C5: when next_tick + tick_rate is already past, next_tick is reset to now,
\* whatever the length of the overrun; the one tick that follows starts
\* without a sleep and next_tick stays at the instant of the reset, so that
\* tick is rescheduled one tick_rate after the reset: it is followed by a
\* sleep when it took no longer than tick_rate, and only a tick that itself
\* took longer than tick_rate is followed by another reset.
MissedTickResetsToNow ==
    /\ [][Schedules /\ next_tick + s_tick_rate < 0
          => next_tick' = 0 /\ missed' /\ since_reset' = 0]_vars
    /\ [](missed => next_tick = 0 - since_reset)
    /\ [][Schedules /\ missed
          => IF since_reset <= s_tick_rate
             THEN ~missed' /\ next_tick' <= 0
             ELSE missed' /\ next_tick' = 0]_vars
    /\ [][missed /\ ~missed' => Schedules]_vars

\* C5 witness: after a wake that was 5 ms late the tick was missed, next_tick
\* was reset, one tick of 1 ms has run without a sleep and is about to be
\* followed by a sleep of the remaining 1 ms
OneTickAfterReset ==
    /\ spc = "schedule" /\ missed /\ since_reset = 1
    /\ next_tick = -1 /\ s_tick_rate = 2

\* C2: two writers that edit different keys with the edit loop, at once and
\* from the same snapshot, both leave their loop, and once a writer has left
\* it the map holds the value that writer set for its key: no edit is lost to
\* the other writer's.
NoLostUpdate ==
    /\ [](\A w \in Writers :
            wpc[w] = "idle" /\ edits[w] > 0
               => settings[auto_splitter].map[KeyOf[w]] = wvalue[w])
    /\ \A w \in Writers : (wpc[w] # "idle") ~> (wpc[w] = "idle")

\* C2 witness: both writers have left their loop, one of them after a failed
\* compare-and-swap (the other stored between its read and its store), and
\* the map holds both edits
BothEditsAfterRetry ==
    /\ \A w \in Writers : wpc[w] = "idle" /\ edits[w] = 1
    /\ \E w \in Writers : failed[w] > 0
    /\ \A w \in Writers : settings[auto_splitter].map[KeyOf[w]] = wvalue[w]
    /\ settings[auto_splitter].map["A"] # "unset"
    /\ settings[auto_splitter].map["B"] # "unset"

\* The fields of the timer a claim names, without the log
LastLog == IF logs = << >> THEN "" ELSE logs[Len(logs)].message

\* C12: a start, by the auto splitter or by the Start button, changes the
\* timer only when it is not running, and then sets it running; from every
\* other state it leaves the state, the split index, the game time and the
\* variables as they are (and logs nothing).
StartOnlyFromNotRunning ==
    /\ [][ModStart \/ UiStart
          => /\ timer_state' = IF timer_state = "NotRunning" THEN "Running"
                               ELSE timer_state
             /\ <<split_index, game_time, game_time_state, variables>>'
                   = <<split_index, game_time, game_time_state, variables>>
             /\ timer_state # "NotRunning" => logs' = logs]_vars
    /\ [](/\ timer_state # "NotRunning"
             => TimerStart(Timer) = Timer /\ Start(Timer) = Timer
          /\ timer_state = "NotRunning"
             => /\ TimerStart(Timer) = [Timer EXCEPT !.timer_state = "Running"]
                /\ Start(Timer).timer_state = "Running")

\* C12 witness: the auto splitter has started the timer
StartedByAutoSplitter ==
    /\ spc = "update" /\ timer_state = "Running"
    /\ LastLog = "Timer started."

\* C13: split and skip_split add exactly 1 to the split index when the timer
\* is running and only then; in every other state they leave the whole timer
\* as it is; they never change the state of the timer.
SplitOnlyWhileRunning ==
    /\ [][ModSplit \/ ModSkipSplit
          => /\ timer_state' = timer_state
             /\ IF timer_state = "Running"
                THEN /\ split_index' = split_index + 1
                     /\ <<game_time, game_time_state, variables>>'
                           = <<game_time, game_time_state, variables>>
                ELSE timerVars' = timerVars]_vars
    /\ [](\A t \in {Split(Timer), SkipSplit(Timer)} :
            /\ t.timer_state = timer_state
            /\ IF timer_state = "Running"
               THEN t.split_index = split_index + 1
               ELSE t = Timer)

\* C13 witness: the running timer has been split up to the second split
SplitWhileRunning ==
    /\ spc = "update" /\ timer_state = "Running" /\ split_index = 2
    /\ LastLog \in {"Splitted.", "Split skipped."}

\* Integers
Max(a, b) == IF a >= b THEN a ELSE b

\* C14: undo_split on a running or an ended timer leaves it running with the
\* split index one lower, but not below 0; the split index is never negative.
UndoSplitSaturates ==
    /\ [](split_index >= 0)
    /\ [][ModUndoSplit
          => IF timer_state \in {"Running", "Ended"}
             THEN /\ timer_state' = "Running"
                  /\ split_index' = Max(split_index - 1, 0)
             ELSE timerVars' = timerVars]_vars
    /\ [](timer_state \in {"Running", "Ended"}
            => /\ UndoSplit(Timer).timer_state = "Running"
               /\ UndoSplit(Timer).split_index = Max(split_index - 1, 0))

\* C14 witness: a split has been undone and the split index is 0
UndoneAtZero ==
    /\ spc = "update" /\ timer_state = "Running" /\ split_index = 0
    /\ LastLog = "Split undone."

\* C15: a reset, by the auto splitter or by the Reset button, leaves the
\* timer not running, the split index 0, the game time 0 and not
\* initialized, and no variable, whatever the timer was before.
ResetYieldsInitial ==
    /\ [][ModReset \/ UiReset
          => /\ timer_state' = "NotRunning" /\ split_index' = 0
             /\ game_time' = 0 /\ game_time_state' = "NotInitialized"
             /\ variables' = << >>]_vars
    /\ [](\A t \in {Reset(Timer), TimerReset(Timer)} :
            /\ t.timer_state = "NotRunning" /\ t.split_index = 0
            /\ t.game_time = 0 /\ t.game_time_state = "NotInitialized"
            /\ t.variables = << >>)

\* C15 witness: the auto splitter has reset the timer
ResetByAutoSplitter ==
    /\ spc = "update" /\ LastLog = "Run reset."
    /\ timer_state = "NotRunning" /\ split_index = 0 /\ game_time = 0
    /\ game_time_state = "NotInitialized" /\ variables = << >>

\* C20: set_game_time is accepted in every state of the timer and of the
\* game time, for a time above or below the current one; it sets the game
\* time to the time given, turns a game time that is not initialized into a
\* running one and leaves a paused or running one as it is; it changes
\* neither the state of the timer nor the split index.
SetGameTimeKeepsPause ==
    /\ [][\A time \in EnvTimer.times :
            ModCall(SetGameTime(Timer, time))
               => /\ game_time' = time
                  /\ game_time_state' = IF game_time_state = "NotInitialized"
                                        THEN "Running" ELSE game_time_state
                  /\ timer_state' = timer_state
                  /\ split_index' = split_index]_vars
    /\ [](spc = "update"
            => \A time \in EnvTimer.times :
                  ENABLED ModCall(SetGameTime(Timer, time)))

\* C20 witness: a paused game time with a time set
PausedGameTimeSet ==
    /\ spc = "update" /\ game_time_state = "Paused" /\ game_time = 1

\* The keys of the variables, in their order
VariableKeys(vs) == [j \in 1 .. Len(vs) |-> vs[j].key]

\* C19: set_variable of a key that is among the variables changes the value
\* of that key where it stands and nothing else; of a key that is not, it
\* appends the key with the value at the end.  No key stands twice, and as
\* long as the variables are not cleared the keys stay in the order in which
\* they were first set.
SetVariableKeepsOrder ==
    /\ [][\A key \in EnvVar.keys, value \in EnvVar.values :
            ModCall(SetVariable(Timer, key, value))
               => IF \E i \in 1 .. Len(variables) : variables[i].key = key
                  THEN /\ Len(variables') = Len(variables)
                       /\ \A i \in 1 .. Len(variables) :
                            variables'[i] = IF variables[i].key = key
                                            THEN [key |-> key, value |-> value]
                                            ELSE variables[i]
                  ELSE variables' = Append(variables,
                                           [key |-> key, value |-> value])]_vars
    /\ [](\A i, j \in 1 .. Len(variables) :
             variables[i].key = variables[j].key => i = j)
    /\ [][variables' # << >>
          => /\ Len(variables') >= Len(variables)
             /\ SubSeq(VariableKeys(variables'), 1, Len(variables))
                   = VariableKeys(variables)]_vars

\* C19 witness: three variables, first set in the order y, x, z, and the
\* first of them holding the second value
ThreeVariablesInOrder ==
    /\ spc = "update"
    /\ VariableKeys(variables) = <<"y", "x", "z">>
    /\ variables[1].value = "2" /\ variables[3].value = "1"

\* C17: the step that ends a reload or a restart leaves the state of the
\* timer, the split index, the game time and the state of the game time as
\* they are and clears the variables; the step that ends the load of a file
\* leaves the timer as a reset does.  No other step of a load writes the
\* timer.
ReloadKeepsTimer ==
    /\ [][LoadReturns /\ load \in {"Reload", "Restart"}
          => /\ <<timer_state, split_index, game_time, game_time_state>>'
                   = <<timer_state, split_index, game_time, game_time_state>>
             /\ variables' = << >>]_vars
    /\ [][FreshLoadReturns
          => <<timer_state', split_index', game_time', game_time_state',
               variables'>>
               = <<TimerReset(Timer).timer_state, TimerReset(Timer).split_index,
                   TimerReset(Timer).game_time,
                   TimerReset(Timer).game_time_state,
                   TimerReset(Timer).variables>>]_vars
    /\ [][cpc' # cpc /\ cpc \in LoadPcs \ {"timer"}
          => stateVars' = stateVars]_vars

\* C17 witness: a reload has returned and the timer is still running, at its
\* first split and with its game time, without the variables
ReloadedWhileRunning ==
    /\ cpc = "idle" /\ load = "Reload" /\ LastLog = "Auto splitter reloaded."
    /\ timer_state = "Running" /\ split_index = 1 /\ game_time = 1
    /\ game_time_state = "Running" /\ variables = << >>

\* C16: a reload and a restart read the settings map of the published auto
\* splitter when they begin, while it is still published, and instantiate
\* the new auto splitter with that map; the load of a file reads none, and a
\* reload that finds no auto splitter published has none: the new auto
\* splitter then starts from a new map.
ReloadCarriesSettings ==
    /\ [][cpc = "begin" /\ cpc' # cpc
          => settings_map' = IF load = "File" \/ auto_splitter = NoInst
                             THEN NoMap ELSE settings[auto_splitter]]_vars
    /\ [][cpc' # cpc /\ cpc \in {"begin", "compile", "instantiate", "guard",
                                 "try", "locked"}
          => auto_splitter' = auto_splitter]_vars
    /\ [][cpc' # cpc /\ cpc \in {"compile", "instantiate"}
          => settings_map' = settings_map]_vars
    /\ [][cpc = "instantiate" /\ cpc' # cpc /\ new_auto_splitter' # NoInst
          => settings'[new_auto_splitter']
               = IF settings_map = NoMap THEN NewMap ELSE settings_map]_vars
    /\ [](cpc = "store" /\ new_auto_splitter # NoInst /\ load = "File"
            => settings[new_auto_splitter] = NewMap)

\* C16 witness: a restart has instantiated the new auto splitter, not yet
\* published, with the map in which the key of the widget was set
NewInstanceHasEditedMap ==
    /\ cpc = "store" /\ load = "Restart"
    /\ new_auto_splitter # NoInst /\ auto_splitter # NoInst
    /\ new_auto_splitter # auto_splitter
    /\ settings[new_auto_splitter].map["A"] = "on"
    /\ settings[new_auto_splitter] = settings[auto_splitter]

\* The steps of a tick that follow update
RecordPcs == {"processes", "drop", "usage", "slowest", "tick_rate",
              "histogram", "avg_load", "avg_store"}

\* C18: an update that fails does not stop the runtime thread.  Whatever the
\* result of update, the tick stores its memory usage and handle count,
\* raises the slowest tick, records its time in the histogram and in the
\* average; a failed update then appends one Error entry and a successful
\* one appends nothing; either way the thread goes on to schedule the next
\* tick and comes back to the top of its loop.
FailedUpdateKeepsTicking ==
    /\ [][spc' # spc /\ spc \in RecordPcs
          => res' = res /\ logs' = logs /\ spc' \in RecordPcs \cup {"log"}]_vars
    /\ [][spc = "usage" /\ spc' # spc
          => memory_usage' = s_memory /\ handles' = s_handles]_vars
    /\ [][spc = "slowest" /\ spc' # spc
          => slowest_tick' = Max(slowest_tick, time_of_tick)]_vars
    /\ [][spc = "histogram" /\ spc' # spc
          => tick_times' = Append(tick_times, time_of_tick)]_vars
    /\ [][spc = "avg_store" /\ spc' # spc
          => avg_tick_secs' = Ewma(s_avg, time_of_tick)]_vars
    /\ [][spc = "log" /\ spc' # spc
          => /\ spc' = "schedule"
             /\ logs' = IF res = "Err"
                        THEN Append(logs,
                               Entry("Failed executing the auto splitter.",
                                     "Error"))
                        ELSE logs]_vars
    /\ [][spc = "schedule" /\ spc' # spc => spc' = "top"]_vars
    /\ (res = "Err") ~> (spc = "top")

\* C18 witness: the tick that follows a failed one is inside update; the
\* failed one has left its Error entry, its time in the histogram and its
\* memory usage
TickAfterFailedUpdate ==
    /\ spc = "update" /\ LastLog = "Failed executing the auto splitter."
    /\ HistogramLen(tick_times) = 1 /\ tick_times[1] = 1
    /\ slowest_tick = 1 /\ memory_usage = 1 /\ handles = 1
    /\ avg_tick_secs = Ewma(0, 1)

\* A reload or a restart has failed and returned, no auto splitter is
\* published and the runtime thread has none in hand
FailedReloadReturned ==
    /\ cpc = "idle" /\ load \in {"Reload", "Restart"} /\ ~succeeded
    /\ auto_splitter = NoInst /\ s_auto_splitter = NoInst

\* C11 as stated: once a reload or a restart has failed and the runtime
\* thread has made an idle iteration, the slowest tick and the average are
\* zero, the histogram and the processes are empty, and the memory usage and
\* the handle count no longer show what the retired auto splitter had.
FailedReloadCleanSlate ==
    FailedReloadReturned /\ spc = "schedule"
       => /\ slowest_tick = 0 /\ avg_tick_secs = 0
          /\ tick_times = EmptyHistogram /\ processes = << >>
          /\ memory_usage = 0 /\ handles = 0

\* C11 amended: a reload or a restart that fails resets the slowest tick, the
\* average and the histogram; while no auto splitter is published and the
\* runtime thread has none in hand, nothing is recorded in them, and the
\* memory usage and the handle count keep the values the last tick stored:
\* no step of a load and no idle iteration writes them.  The idle iteration
\* empties the processes.
FailedReloadResetsThreeStats ==
    /\ [][~succeeded /\ cpc = "reset_slowest" /\ cpc' # cpc
          => slowest_tick' = 0]_vars
    /\ [][~succeeded /\ cpc = "reset_avg" /\ cpc' # cpc
          => avg_tick_secs' = 0]_vars
    /\ [][~succeeded /\ cpc = "reset_histogram" /\ cpc' # cpc
          => tick_times' = EmptyHistogram]_vars
    /\ [][cpc' # cpc /\ cpc \in LoadPcs
          => /\ memory_usage' = memory_usage /\ handles' = handles
             /\ processes' = processes]_vars
    /\ [][auto_splitter = NoInst /\ s_auto_splitter = NoInst
          => /\ memory_usage' = memory_usage /\ handles' = handles
             /\ slowest_tick' \in {slowest_tick, 0}
             /\ avg_tick_secs' \in {avg_tick_secs, 0}
             /\ tick_times' \in {tick_times, EmptyHistogram}
             /\ processes' \in {processes, << >>}]_vars
    /\ [][spc = "idle" /\ spc' # spc
          => /\ processes' = << >>
             /\ memory_usage' = memory_usage /\ handles' = handles]_vars

\* C11 witness: a reload or a restart has failed, the runtime thread has made
\* its idle iteration, the three are reset and the processes empty, and the
\* memory usage and the handle count of the retired auto splitter are still
\* there
StaleUsageAfterFailedReload ==
    /\ FailedReloadReturned /\ spc = "schedule"
    /\ slowest_tick = 0 /\ avg_tick_secs = 0
    /\ tick_times = EmptyHistogram /\ processes = << >>
    /\ memory_usage = 1 /\ handles = 1

\* C21: the slowest tick is a high-water mark.  A tick raises it to its own
\* time exactly when that time is larger, and leaves it alone otherwise; it
\* is lowered by nothing but a reset to zero, which is no step of a tick.
\* Between two resets it therefore never decreases and is the largest time
\* of the ticks recorded since.
SlowestTickIsHighWaterMark ==
    /\ [][spc = "slowest" /\ spc' # spc
          => /\ time_of_tick > slowest_tick => slowest_tick' = time_of_tick
             /\ time_of_tick <= slowest_tick => slowest_tick' = slowest_tick]_vars
    /\ [][slowest_tick' > slowest_tick => spc = "slowest" /\ spc' # spc]_vars
    /\ [][slowest_tick' < slowest_tick
          => slowest_tick' = 0 /\ spc' = spc /\ cpc = "reset_slowest"]_vars

\* C21 witness: a tick of 3 ms and then one of 1 ms have been recorded, and
\* the slowest tick is still 3 ms
SlowTickThenFastTick ==
    /\ spc = "tick_rate" /\ time_of_tick = 1
    /\ tick_times = <<3>> /\ slowest_tick = 3

\* C22: every tick replaces the average by 0.999 times the average it read
\* plus 0.001 times its own time in seconds (in microseconds: 0.999 times
\* the average plus the milliseconds of the tick).  The average a tick reads
\* is the stored one; a tick that reads zero, as the first one after a reset
\* does, stores a thousandth of its time.  Nothing else writes the average
\* but a reset to zero.
AverageIsWeightedUpdate ==
    /\ [][spc = "avg_load" /\ spc' # spc => s_avg' = avg_tick_secs]_vars
    /\ [][spc = "avg_store" /\ spc' # spc
          => /\ avg_tick_secs' = (999 * s_avg + 1000 * time_of_tick) \div 1000
             /\ s_avg = 0 => avg_tick_secs' = time_of_tick]_vars
    /\ [][avg_tick_secs' # avg_tick_secs
          => \/ spc = "avg_store" /\ spc' # spc
             \/ avg_tick_secs' = 0 /\ cpc = "reset_avg" /\ spc' = spc]_vars

\* C22 witness: after a reset a tick of 3 ms has stored 3 microseconds, and
\* the tick of 1 ms that follows has read them and stored 0.999 * 3 + 1
AverageOfTwoTicks ==
    /\ spc = "log" /\ tick_times = <<3, 1>> /\ time_of_tick = 1
    /\ s_avg = 3 /\ avg_tick_secs = (999 * 3 + 1000 * 1) \div 1000

\* C23: the guard of a load interrupts the published auto splitter only
\* after LockAttempts passes of try_lock have failed, each of which found the
\* execution lock held.  A pass that gets the lock ends the guard without an
\* interrupt, and so does a guard that finds no auto splitter published: the
\* load goes on to the store with no interrupt issued.
GuardInterruptsOnlyWhenExhausted ==
    /\ [][\A i \in Inst :
            interrupted'[i] /\ ~interrupted[i]
               => cpc = "try" /\ guard_as = i /\ attempt = LockAttempts]_vars
    /\ [][attempt' # attempt
          => \/ attempt' = 0
             \/ /\ attempt' = attempt + 1
                /\ cpc \in {"try", "dump_try"}
                /\ exec_lock[guard_as] # {}]_vars
    /\ [][cpc = "try" /\ cpc' = "locked"
          => /\ attempt < LockAttempts /\ exec_lock[guard_as] = {}
             /\ interrupted' = interrupted /\ interrupts' = interrupts]_vars
    /\ [][cpc = "locked" /\ cpc' # cpc
          => cpc' = "store" /\ interrupted' = interrupted /\ interrupts' = 0]_vars
    /\ [][cpc = "guard" /\ cpc' # cpc /\ auto_splitter = NoInst
          => cpc' = "store" /\ interrupted' = interrupted /\ interrupts' = 0]_vars

\* C23 witness: the guard got the execution lock of the published auto
\* splitter and gave it back; the load is about to store with no interrupt
\* issued, and the runtime thread is about to lock the old auto splitter
GuardPassedWithoutInterrupt ==
    /\ cpc = "store" /\ auto_splitter # NoInst /\ interrupts = 0
    /\ ~interrupted[auto_splitter] /\ exec_lock[auto_splitter] = {}
    /\ spc = "lock" /\ s_auto_splitter = auto_splitter

\* C24: a compile that fails clears the stored module, and only the compile
\* of a File or a Reload writes it.  A load that finds no module stored
\* attempts no instantiate: it makes no instance, logs no failure of its own
\* and publishes nothing, so that it returns with no auto splitter.  A
\* Restart that follows a failed compile therefore cannot bring back the
\* module of an earlier success.
FailedCompileClearsModule ==
    /\ [][cpc = "compile" /\ cpc' # cpc /\ ~succeeded' => module' = "None"]_vars
    /\ [][module' # module
          => cpc = "compile" /\ load \in {"File", "Reload"}]_vars
    /\ [][cpc = "instantiate" /\ cpc' # cpc /\ module = "None"
          => /\ new_auto_splitter' = NoInst
             /\ instVars' = instVars /\ logs' = logs]_vars
    /\ [][LoadReturns /\ module = "None" => auto_splitter' = NoInst]_vars

\* C24 witness: the last compile has failed, and the Restart that
\* set_script_path made since has returned with nothing instantiated and no
\* auto splitter published
RestartAfterFailedCompile ==
    /\ cpc = "idle" /\ load = "Restart" /\ script_path # "None"
    /\ path # "None" /\ module = "None"
    /\ auto_splitter = NoInst /\ s_auto_splitter = NoInst

\* C25: the process snapshot is replaced wholesale by every iteration of the
\* runtime thread.  After the tick of an auto splitter it is one of the
\* lists an auto splitter reports, whatever it was before (a list with an
\* entry of an earlier tick left in it is none of them); after an iteration
\* that found no auto splitter it is empty.  Nothing else writes it.
SnapshotReplacedEveryTick ==
    /\ [][spc = "processes" /\ spc' # spc
          => processes' \in EnvProc.processes]_vars
    /\ [][spc = "idle" /\ spc' # spc => processes' = << >>]_vars
    /\ [][processes' # processes
          => spc \in {"processes", "idle"} /\ spc' # spc]_vars
    /\ [](spc \in RecordPcs \ {"processes"} => processes \in EnvProc.processes)

\* C25 witness: the second tick since the last load has replaced the
\* snapshot of the first, which had at least one entry, by the one process
\* it reports itself
SecondTickReplacedSnapshot ==
    /\ spc = "drop" /\ processes = <<"game">>
    /\ HistogramLen(tick_times) = 1 /\ cpc = "idle" /\ succeeded

\* C26: from the start of the program the timer is never Ended (nor Paused):
\* whatever the auto splitter calls on it (start, split, skip_split,
\* undo_split, reset, set_game_time, pause_game_time, resume_game_time,
\* set_variable), whatever the Start and Reset buttons and the loads do, its
\* phase is NotRunning or Running.
TimerNeverEnds ==
    /\ [](timer_state \in {"NotRunning", "Running"})
    /\ [][timer_state' # timer_state
          => \/ timer_state = "NotRunning" /\ timer_state' = "Running"
             \/ timer_state = "Running" /\ timer_state' = "NotRunning"]_vars

\* C26 witness: the auto splitter has split twice, set the game time and a
\* variable and paused the game time, and the timer is Running
RunningAfterManyCalls ==
    /\ timer_state = "Running" /\ split_index = 2 /\ game_time = 1
    /\ game_time_state = "Paused" /\ variables # << >>
    /\ auto_splitter # NoInst /\ spc = "update"

\* C27 as stated: once a load has published the new handle, the runtime
\* thread begins no update of the auto splitter it replaced, unless the
\* guard has interrupted that one.
NoUpdateOfRetiredInstance ==
    [][spc = "lock" /\ spc' = "update"
       => s_auto_splitter = auto_splitter \/ interrupted[s_auto_splitter]]_vars

\* C27 amended: the runtime thread reads the published handle at the top of
\* every iteration and begins an update only of the handle it has read in
\* that iteration, once.  An auto splitter that a load has replaced is
\* therefore updated at most once more, in the iteration that had read its
\* handle before the store, interrupted or not, and never in a later one.
RetiredInstanceTicksOnce ==
    /\ [][spc' = "lock" /\ spc # "lock"
          => /\ spc = "top" /\ auto_splitter # NoInst
             /\ s_auto_splitter' = auto_splitter]_vars
    /\ [][spc = "lock" /\ spc' # spc
          => /\ spc' = "update" /\ s_auto_splitter' = s_auto_splitter
             /\ exec_lock[s_auto_splitter] = {}
             /\ exec_lock'[s_auto_splitter] = {"sched"}]_vars
    /\ [][spc' # spc /\ spc \in {"update"} \cup RecordPcs
          => s_auto_splitter' = s_auto_splitter /\ spc' # "lock"]_vars

\* C27 witness: the guard got the execution lock and gave it back, the load
\* has published the new handle, and the runtime thread, which had read the
\* old one, now begins an update of the auto splitter that was replaced
RetiredInstanceAboutToTick ==
    /\ cpc = "reset_slowest" /\ interrupts = 0
    /\ spc = "lock" /\ s_auto_splitter # NoInst
    /\ auto_splitter # NoInst /\ s_auto_splitter # auto_splitter
    /\ exec_lock[s_auto_splitter] = {} /\ ~interrupted[s_auto_splitter]
    /\ ENABLED SchedLock

\* C28: once a load has returned, the slowest tick, the average and the
\* histogram hold nothing of the auto splitter it replaced: a tick of an
\* auto splitter that is no longer the published one, which was in flight
\* during the load, writes none of the three.
StatsOnlyOfPublishedHandle ==
    [][cpc = "idle" /\ spc \in RecordPcs /\ s_auto_splitter # auto_splitter
       => /\ slowest_tick' = slowest_tick
          /\ avg_tick_secs' = avg_tick_secs
          /\ tick_times' = tick_times]_vars

\* The steps of load between the store of the new handle and its return
PublishedPcs == {"reset_slowest", "reset_avg", "reset_histogram", "timer"}

\* C29: a load erases nothing that the auto splitter it has published has
\* done to the timer: while the load is between its store and the step that
\* clears the timer and the variables, that auto splitter changes neither
\* the phase, the split index, the game time nor the variables.
LoadClearsBeforeNewModuleActs ==
    [][stateVars' # stateVars /\ cpc' = cpc /\ spc = "update"
          /\ s_auto_splitter = auto_splitter
       => cpc \notin PublishedPcs]_vars

\* C30: a load appends its success entry only when it returns with an auto
\* splitter published; a Reload with no path recorded and a Restart with no
\* compiled module append none.
SuccessEntryOnlyWithHandle ==
    [][LoadReturns /\ EntriesSince(logs', log_mark, LoadSuccesses) # {}
       => auto_splitter' # NoInst]_vars

\* C32: whenever the timer is NotRunning its split index is zero.  The split
\* index leaves zero only while the timer is Running, and every step that
\* makes the timer NotRunning sets it to zero.
NotRunningAtFirstSplit ==
    /\ [](timer_state = "NotRunning" => split_index = 0)
    /\ [][split_index' # split_index /\ split_index' # 0
          => timer_state = "Running" /\ timer_state' = "Running"]_vars
    /\ [][timer_state' = "NotRunning" /\ timer_state # "NotRunning"
          => split_index' = 0]_vars

\* C32 witness: the auto splitter has split a running timer, which the Reset
\* button or the load of a file has then made NotRunning, at split index zero
ResetAfterSplit ==
    /\ timer_state = "NotRunning" /\ split_index = 0
    /\ Len(logs) = 1 /\ LastLog = "Splitted."

\* A thread that has still p to do waits: its next step is a lock() of a
\* lock that is held
Waits(p) ==
    p # << >> /\ Head(p).op = "lock" /\ owner[Head(p).lock] # "none"

\* C31: no thread waits for ever for a lock the other one holds.  The two
\* threads never wait at once; a thread that waits, waits for a lock the
\* other thread holds, never for one of its own, and that other thread can
\* take its next step; try_lock never waits.  Between two iterations the
\* runtime thread holds no lock, and between two handlers the user interface
\* thread holds none.
NoThreadWaitsForever ==
    /\ [](~(Waits(rt) /\ Waits(ui)))
    /\ [](Waits(rt) => owner[Head(rt).lock] = "ctrl" /\ ENABLED UiRun)
    /\ [](Waits(ui) => owner[Head(ui).lock] = "sched" /\ ENABLED RuntimeRun)
    /\ [](ui # << >> /\ Head(ui).op = "try" => ENABLED UiRun)
    /\ [](\A l \in Locks : /\ owner[l] = "sched" => rt # << >>
                           /\ owner[l] = "ctrl" => ui # << >>)

\* C31 witness: Dump holds the execution lock and waits for the write lock
\* of the timer to log its failed write, while the runtime thread, which
\* holds that lock to log a failed update, can go on
DumpWaitsForTimer ==
    /\ owner["execution"] = "ctrl" /\ owner["timer"] = "sched"
    /\ Waits(ui) /\ Head(ui).lock = "timer" /\ ~Waits(rt)

====
